---- MODULE Spec2Model ----
(***************************************************************************)
(* A model of the Agent_cv repository: the notification agent, the rate    *)
(* limiter, the OpenAI client, the scheduler run, the notification         *)
(* history logger, the Offers tab of the dashboard, the CV analyzer, the   *)
(* motivation letter generator and the CV uploader.                        *)
(*                                                                         *)
(* Every component has its own variables and its own specification; a      *)
(* specification leaves the variables of the other components unchanged.   *)
(* Scores and thresholds are percentages (0.7 is 70).                      *)
(***************************************************************************)
EXTENDS Integers, Sequences, FiniteSets, TLC

VARIABLES
    \* --- NotificationAgent (src/src/agents/notification_agent.py)
    analyzed_offers,      \* job_analyzer.analyzed_offers
    sent_notifications,   \* NotificationAgent.sent_notifications
    min_match_score,      \* NotificationAgent.min_match_score (percent)
    outbox,               \* what email_sender.send_email accepted, in order
    notif_calls,          \* log of the calls made on the agent
    \* --- RateLimiter (src/src/utils/rate_limiter.py)
    rl_timestamps,        \* RateLimiter.timestamps (the deque)
    rl_lock,              \* RateLimiter.lock: the thread inside __enter__, 0 if free
    rl_now,               \* the local "now" of the thread inside __enter__
    rl_wake,              \* end of the time.sleep in progress, -1 if none
    rl_clock,             \* time.time(), in ticks
    rl_recorded,          \* every timestamp ever appended, in order
    \* --- chat_completion (src/src/utils/openai_client.py)
    chat_pc,              \* "idle", "attempt", "sleep", "returned", "raised"
    chat_attempt,         \* the loop variable attempt
    chat_delay,           \* the local delay, in seconds
    chat_outcomes,        \* outcome of every HTTP attempt of the current call
    chat_sleeps,          \* every time.sleep(delay) of the current call
    chat_result,          \* returned text, or the kind of failure raised
    chat_calls,           \* calls started so far
    openai_timestamps,    \* openai_limiter.timestamps
    chat_trace,           \* "acquire", "post" and "sleep" events of the current call
    chat_base,            \* len(openai_limiter.timestamps) when the current call started
    chat_now,             \* time.time(), in seconds
    \* --- scheduler run (src/scripts/scheduler.py)
    DB_AVAILABLE,         \* "unset" until the first import, then "yes" or "no"
    job_offer_table,      \* urls of the rows of the JobOffer table
    seen_file,            \* content of logs/seen_offers.json (a set of ids)
    job_offers_file,      \* content of src/data/job_offers.json
    sched_last,           \* what the last run did
    sched_processed,      \* ids scored by the fault-free runs before the last
    sched_runs,           \* runs so far
    \* --- notification history logger (src/app/utils/notification_logger.py)
    history_file,         \* content of notification_history.json (a list)
    notification_rows,    \* number of rows of the Notification table
    log_appended,         \* every record the JSON backend appended, in order
    \* --- Offers tab (src/app/landing.py, src/app/utils/state_store.py)
    user_state_file,      \* user_state.json: user -> favorites, viewed, hidden
    current_user,         \* st.session_state.current_user
    ui_offers,            \* the analyzed offers of the tab (analyzer.analyzed_offers)
    filter_status,        \* the "Statut" select box
    filter_score,         \* the "Score" select box
    rendered,             \* the offers the last run of the script displayed
    ui_clicks,            \* favorite / viewed / hide clicks so far
    \* --- CVAnalyzer (src/src/agents/cv_analyzer.py)
    cv_data,              \* CVAnalyzer.cv_data
    cv_runs,              \* analyze_cvs calls on this instance
    \* --- MotivationLetterGenerator (src/src/agents/motivation_letter_generator.py)
    generated_letters,    \* the cache: a function from offer keys to letters
    openai_available,     \* MotivationLetterGenerator.openai_available
    letter_serial,        \* letters written so far (each text carries its time)
    letter_log,           \* the letters written since the last clear, in order
    letter_op,            \* the last operation made on the generator
    letter_call,          \* threshold of the last generate_letters call and whether a generation raised
    \* --- CV uploader (src/app/utils/cv_uploader.py)
    uploader_db,          \* DB_AVAILABLE of cv_uploader: "unset", "yes" or "no"
    users_table,          \* rows of the User table
    cvs_table,            \* rows of the CV table
    cv_data_json,         \* content of src/data/cv_data.json
    data_files,           \* the data directory: file name -> content (upload number)
    upload_clock,         \* datetime.now(), in seconds
    upload_result,        \* what the last save_and_analyze_cv returned
    upload_log,           \* the last two uploads that stored a final file, in order
    uploads,              \* uploads so far
    \* --- state_store (src/app/utils/state_store.py)
    STATE_FILE,           \* content of src/data/user_state.json, as save_user_state finds it
    store_op,             \* the last step on the file: "init", "saved", "raised", "replaced"
    store_user,           \* the user_name of the last save_user_state
    store_calls,          \* steps on the file so far
    \* --- notification logger, both backends (src/app/utils/notification_logger.py)
    backend_db,           \* the User and Notification tables after the calls
    backend_json,         \* notification_history.json after the same calls
    backend_calls,        \* log_notification calls so far
    \* --- JobOfferAnalyzer._calculate_skill_match (src/src/agents/job_offer_analyzer.py)
    skill_required,       \* required_skills of the last _calculate_skill_match
    skill_cv,             \* cv_skills of the last _calculate_skill_match
    skill_result,         \* what the last _calculate_skill_match returned
    \* --- JobOfferAnalyzer ATS scoring (src/src/agents/job_offer_analyzer.py)
    ats_cvs,              \* cv_data of the _analyze_single_offer call, <<>> before it
    ats_offer,            \* the offer of the call
    ats_result,           \* ats_score and best_match_cv of the result
    \* --- page state machine of the dashboard (src/app/landing.py)
    page,                 \* st.session_state.page
    page_selection,       \* the navigation radio of the sidebar
    page_user,            \* st.session_state.current_user, as the sidebar sets it
    scanning,             \* st.session_state.scanning
    page_event,           \* the last interaction
    page_events,          \* interactions so far
    \* --- recipient loop of run_once_notify.py and scheduler.py
    run_cvs,              \* cv_data of the script
    user_prefs,           \* user_prefs of the script
    run_i,                \* index of the CV the loop is at
    run_pc,               \* position of the script: idle, loop, send, done
    run_log,              \* recipient and agent threshold of every send_notifications call of the run
    \* --- profile saver (src/app/utils/profile_saver.py)
    profile_db,           \* DB_AVAILABLE of profile_saver: "unset", "yes", "no"
    profile_users,        \* users table as the profile saver sees it
    preferences_table,    \* preferences table
    user_preferences_json, \* content of src/data/user_preferences.json
    profile_result,       \* (success, message) of the last save_user_profile
    profile_last,         \* arguments of the last save_user_profile
    profile_calls,        \* save_user_profile calls so far
    \* --- education component of the ATS score
    edu_analysis,         \* the analysis analyze_cvs stored for the CV
    edu_offer,            \* the offer the CV is scored against
    edu_score,            \* edu_score of _score_offer, a fraction
    edu_total,            \* the ATS score in ten-thousandths, -10000 before the call
    \* --- two processes on the shared JSON files
    shared_files,         \* user_state.json and notification_history.json as two processes share them
    conc_pc,              \* position of each process: idle / loaded / done
    conc_call,            \* the call each process makes
    conc_data,            \* the copy of the file each process loaded
    conc_read_at,         \* time of the read of each process (0: not yet)
    conc_write_at,        \* time of the write of each process (0: not yet)
    conc_clock,           \* steps so far
    \* --- import_from_json
    import_users,         \* the users table
    import_rows,          \* user ids of the cvs / preferences / notifications rows
    import_result,        \* idle / completed / raised
    import_files          \* the three JSON files of the last import

notifVars == <<analyzed_offers, sent_notifications, min_match_score, outbox, notif_calls>>
rlVars == <<rl_timestamps, rl_lock, rl_now, rl_wake, rl_clock, rl_recorded>>
chatVars == <<chat_pc, chat_attempt, chat_delay, chat_outcomes, chat_sleeps, chat_result, chat_calls,
              openai_timestamps, chat_trace, chat_base, chat_now>>
schedVars == <<DB_AVAILABLE, job_offer_table, seen_file, job_offers_file, sched_last,
               sched_processed, sched_runs>>
logVars == <<history_file, notification_rows, log_appended>>
uiVars == <<user_state_file, current_user, ui_offers, filter_status, filter_score,
            rendered, ui_clicks>>
cvVars == <<cv_data, cv_runs>>
letterVars == <<generated_letters, openai_available, letter_serial, letter_log, letter_op,
                letter_call>>
uploadVars == <<uploader_db, users_table, cvs_table, cv_data_json, data_files,
                upload_clock, upload_result, upload_log, uploads>>
storeVars == <<STATE_FILE, store_op, store_user, store_calls>>
backendsVars == <<backend_db, backend_json, backend_calls>>
skillVars == <<skill_required, skill_cv, skill_result>>
atsVars == <<ats_cvs, ats_offer, ats_result>>
pageVars == <<page, page_selection, page_user, scanning, page_event, page_events>>
runVars == <<run_cvs, user_prefs, run_i, run_pc, run_log>>
profileVars == <<profile_db, profile_users, preferences_table, user_preferences_json, profile_result, profile_last, profile_calls>>
eduVars == <<edu_analysis, edu_offer, edu_score, edu_total>>
concVars == <<shared_files, conc_pc, conc_call, conc_data, conc_read_at, conc_write_at, conc_clock>>
importVars == <<import_users, import_rows, import_result, import_files>>

vars == <<notifVars, rlVars, chatVars, schedVars, logVars, uiVars, cvVars, letterVars,
          uploadVars,
          storeVars,
          backendsVars,
          skillVars,
          atsVars,
          pageVars,
          runVars,
          profileVars,
          eduVars,
          concVars,
          importVars>>

(***************************************************************************)
(* Helpers on sequences                                                    *)
(***************************************************************************)
Range(s) == {s[i] : i \in 1..Len(s)}

SeqsUpTo(S, n) == UNION {[1..k -> S] : k \in 0..n}

(***************************************************************************)
(* NotificationAgent                                                       *)
(***************************************************************************)
MaxOffers == 2        \* offers in one analyzed list
MaxNotifCalls == 2    \* calls made on one agent instance

Titles == {"dev", "ops"}
Companies == {"acme"}
Scores == {60, 80}
Thresholds == {70, 50}

DefaultMinMatchScore == 70

AnalyzedOffer == [title : Titles, company : Companies, match_score : Scores]

Recipients == {"", "not-an-email", "user@example.com"}
EnvNotificationEmail == {"", "env@example.com"}

\* f"{offer['title']}_{offer['company']}"
OfferKey(offer) == offer.title \o "_" \o offer.company

\* the regex of _is_valid_email on the addresses of the model
IsValidEmail(email) == email \in {"user@example.com", "env@example.com"}

\* [o for o in analyzed_offers if o.get('match_score', 0) >= threshold]
MatchedOffers(offers, threshold) ==
    SelectSeq(offers, LAMBDA o : o.match_score >= threshold)

\* a send_notifications that never consults the sent list
SkipAlreadySent_Never(key, sent, force) == FALSE

\* "offer_key in self.sent_notifications and not force"
SkipAlreadySent(key, sent, force) == key \in Range(sent) /\ ~force

\* a try block that would record the key and count the offer even though
\* send_email raised
SendOne_RecordsFailure(acc, i, key, ok, call) ==
    [sent |-> Append(acc.sent, key),
     out |-> IF ok THEN Append(acc.out, [key |-> key, call |-> call]) ELSE acc.out,
     sent_count |-> acc.sent_count + 1,
     attempts |-> Append(acc.attempts, [idx |-> i, key |-> key, ok |-> ok])]

\* the try block of send_notifications for one offer: send_email is called;
\* when it returns, the key is appended to the sent list and sent_count is
\* incremented; when it raises, the except clause only logs
SendOne(acc, i, key, ok, call) ==
    [sent |-> IF ok THEN Append(acc.sent, key) ELSE acc.sent,
     out |-> IF ok THEN Append(acc.out, [key |-> key, call |-> call]) ELSE acc.out,
     sent_count |-> IF ok THEN acc.sent_count + 1 ELSE acc.sent_count,
     attempts |-> Append(acc.attempts, [idx |-> i, key |-> key, ok |-> ok])]

\* the for loop of send_notifications over matched_offers, from index i on;
\* fails is the set of indices whose send_email raises
RECURSIVE SendLoop(_, _, _, _, _, _)
SendLoop(matched, i, acc, force, fails, call) ==
    IF i > Len(matched) THEN acc
    ELSE LET key == OfferKey(matched[i]) IN
         IF SkipAlreadySent(key, acc.sent, force)
         THEN SendLoop(matched, i + 1, acc, force, fails, call)
         ELSE SendLoop(matched, i + 1, SendOne(acc, i, key, i \notin fails, call),
                       force, fails, call)

\* job_analyzer.compare_job_offers replaces the analyzed list
compare_job_offers(offers) ==
    /\ analyzed_offers' = offers
    /\ UNCHANGED <<sent_notifications, min_match_score, outbox, notif_calls>>

\* the scripts assign notification_agent.min_match_score per recipient
set_min_match_score(t) ==
    /\ min_match_score' = t
    /\ UNCHANGED <<analyzed_offers, sent_notifications, outbox, notif_calls>>

send_notifications(recipient_email, env, force, fails) ==
    /\ Len(notif_calls) < MaxNotifCalls
    /\ LET call == Len(notif_calls) + 1
           rcpt == IF recipient_email # "" THEN recipient_email ELSE env
           matched == MatchedOffers(analyzed_offers, min_match_score)
           runs == /\ analyzed_offers # <<>>
                   /\ rcpt # ""
                   /\ IsValidEmail(rcpt)
                   /\ matched # <<>>
           start == [sent |-> sent_notifications, out |-> outbox,
                     sent_count |-> 0, attempts |-> <<>>]
           res == IF runs
                  THEN SendLoop(matched, 1, start, force, fails, call)
                  ELSE start
       IN /\ fails \subseteq 1..Len(matched)
          /\ ~runs => fails = {}
          /\ sent_notifications' = res.sent
          /\ outbox' = res.out
          /\ notif_calls' = Append(notif_calls,
                 [kind |-> "send", force |-> force, ran |-> runs,
                  mail_ok |-> (fails = {}),
                  returned |-> res.sent_count, attempts |-> res.attempts,
                  matched |-> IF runs THEN [j \in 1..Len(matched) |-> OfferKey(matched[j])]
                              ELSE <<>>])
    /\ UNCHANGED <<analyzed_offers, min_match_score>>

clear_notification_history ==
    /\ Len(notif_calls) < MaxNotifCalls
    /\ sent_notifications # <<>>
    /\ sent_notifications' = <<>>
    /\ notif_calls' = Append(notif_calls,
           [kind |-> "clear", force |-> FALSE, ran |-> FALSE, mail_ok |-> TRUE,
            returned |-> 0, attempts |-> <<>>, matched |-> <<>>])
    /\ UNCHANGED <<analyzed_offers, min_match_score, outbox>>

NotifInit ==
    /\ analyzed_offers = <<>>
    /\ sent_notifications = <<>>
    /\ min_match_score = DefaultMinMatchScore
    /\ outbox = <<>>
    /\ notif_calls = <<>>

notNotifVars == <<rlVars, chatVars, schedVars, logVars, uiVars, cvVars, letterVars, uploadVars,
          storeVars,
          backendsVars,
          skillVars,
          atsVars,
          pageVars,
          runVars,
          profileVars,
          eduVars,
          concVars,
          importVars>>

NotifCompare ==
    /\ \E offers \in SeqsUpTo(AnalyzedOffer, MaxOffers) : compare_job_offers(offers)
    /\ UNCHANGED notNotifVars
NotifSetThreshold ==
    /\ \E t \in Thresholds : set_min_match_score(t)
    /\ UNCHANGED notNotifVars
NotifSend ==
    /\ \E r \in Recipients, env \in EnvNotificationEmail, force \in BOOLEAN,
          fails \in SUBSET (1..MaxOffers) :
           send_notifications(r, env, force, fails)
    /\ UNCHANGED notNotifVars
NotifClear ==
    /\ clear_notification_history
    /\ UNCHANGED notNotifVars

NotifNext ==
    \/ NotifCompare
    \/ NotifSetThreshold
    \/ NotifSend
    \/ NotifClear

(***************************************************************************)
(* RateLimiter                                                             *)
(***************************************************************************)
RLMaxRequests == 2    \* max_requests of the limiter under test
RLTimeWindow == 2     \* time_window, in ticks
MaxThreads == 2       \* threads that use the limiter
MaxAcquire == 5       \* acquisitions recorded in one behaviour
MaxClock == 4         \* last tick of the clock

RLThreads == 1..MaxThreads

\* "self.timestamps[0] < now - self.time_window"
Expired(ts, now) == ts < now - RLTimeWindow

\* while self.timestamps and self.timestamps[0] < now - W: popleft()
RECURSIVE Prune(_, _)
Prune(ts, now) ==
    IF ts # <<>> /\ Expired(Head(ts), now) THEN Prune(Tail(ts), now) ELSE ts

\* (oldest_timestamp + self.time_window) - now
WaitTime(ts, now) == (Head(ts) + RLTimeWindow) - now

\* __enter__ up to the sleep: take the lock, read the clock, prune, and
\* either record at once or start sleeping with the lock held
rl_enter(t) ==
    /\ rl_lock = 0
    /\ Len(rl_recorded) < MaxAcquire
    /\ LET now == rl_clock
           pruned == Prune(rl_timestamps, now)
       IN IF Len(pruned) >= RLMaxRequests /\ WaitTime(pruned, now) > 0
          THEN /\ rl_lock' = t
               /\ rl_now' = now
               /\ rl_wake' = now + WaitTime(pruned, now)
               /\ rl_timestamps' = pruned
               /\ UNCHANGED <<rl_recorded, rl_clock>>
          ELSE /\ rl_timestamps' = Append(pruned, now)
               /\ rl_recorded' = Append(rl_recorded, now)
               /\ UNCHANGED <<rl_lock, rl_now, rl_wake, rl_clock>>

\* __enter__ after time.sleep(wait_time): read the clock again, prune
\* again, record, release the lock
rl_wake_up(t) ==
    /\ rl_lock = t
    /\ rl_clock >= rl_wake
    /\ LET now == rl_clock
           pruned == Prune(rl_timestamps, now)
       IN /\ rl_timestamps' = Append(pruned, now)
          /\ rl_recorded' = Append(rl_recorded, now)
    /\ rl_lock' = 0
    /\ rl_now' = -1
    /\ rl_wake' = -1
    /\ UNCHANGED rl_clock

\* time passes
rl_tick ==
    /\ rl_clock < MaxClock
    /\ rl_clock' = rl_clock + 1
    /\ UNCHANGED <<rl_timestamps, rl_lock, rl_now, rl_wake, rl_recorded>>

RLInit ==
    /\ rl_timestamps = <<>>
    /\ rl_lock = 0
    /\ rl_now = -1
    /\ rl_wake = -1
    /\ rl_clock = 0
    /\ rl_recorded = <<>>

notRLVars == <<notifVars, chatVars, schedVars, logVars, uiVars, cvVars, letterVars, uploadVars,
          storeVars,
          backendsVars,
          skillVars,
          atsVars,
          pageVars,
          runVars,
          profileVars,
          eduVars,
          concVars,
          importVars>>

RLEnter == (\E t \in RLThreads : rl_enter(t)) /\ UNCHANGED notRLVars
RLWakeUp == (\E t \in RLThreads : rl_wake_up(t)) /\ UNCHANGED notRLVars
RLTick == rl_tick /\ UNCHANGED notRLVars

RLNext ==
    \/ RLEnter
    \/ RLWakeUp
    \/ RLTick

(***************************************************************************)
(* chat_completion                                                         *)
(***************************************************************************)
MaxRetries == 3       \* max_retries
InitialDelay == 1     \* initial_delay, seconds
MaxChatCalls == 2     \* calls of chat_completion in one behaviour

RetryStatuses == {429, 500, 502, 503, 504}
OtherErrorStatuses == {400, 401}

\* what one HTTP attempt can produce: an HTTPError of raise_for_status, any
\* other exception (timeout, connection error, a body without choices or
\* without text), or a completion
HttpErrors == [kind : {"http"}, status : RetryStatuses \cup OtherErrorStatuses, text : {""}]
Exceptions == [kind : {"exception"}, status : {0}, text : {""}]
Completions == [kind : {"ok"}, status : {200}, text : {" Bonjour ", "Bonjour"}]
Outcomes == HttpErrors \cup Exceptions \cup Completions

\* str.strip() on the texts of the model
Strip(text) == IF text = " Bonjour " THEN "Bonjour" ELSE text

\* a failed attempt that the claim calls retryable
Retryable(o) == (o.kind = "http" /\ o.status \in RetryStatuses) \/ o.kind = "exception"

\* every HTTPError taken for a retryable one
HardFailure_Never(o) == FALSE

\* the else branch of "if e.response.status_code in [429, 500, 502, 503, 504]"
HardFailure(o) == o.kind = "http" /\ o.status \notin RetryStatuses

\* openai_limiter.__enter__: the timestamp of the acquisition is appended.
\* The limiter allows 20 requests in 60 s; the calls of one behaviour make
\* at most 8 requests in less than 60 s, so nothing is pruned or waited for.
LimiterEnter(timestamps, now) == Append(timestamps, now)

\* an __exit__ that would give the token back when the block raised
LimiterExit_Release(timestamps, raised) ==
    IF raised /\ timestamps # <<>> THEN SubSeq(timestamps, 1, Len(timestamps) - 1) ELSE timestamps

\* openai_limiter.__exit__: pass
LimiterExit(timestamps, raised) == timestamps

\* "attempt < max_retries" with one retry too many
CanRetry_OneMore(attempt) == attempt <= MaxRetries

\* "if attempt < max_retries"
CanRetry(attempt) == attempt < MaxRetries

\* the call is made: the key is read, and the loop starts
chat_completion(api_key_set) ==
    /\ chat_pc \in {"idle", "returned", "raised"}
    /\ chat_calls < MaxChatCalls
    /\ chat_calls' = chat_calls + 1
    /\ chat_outcomes' = <<>>
    /\ chat_sleeps' = <<>>
    /\ chat_attempt' = 0
    /\ chat_delay' = InitialDelay
    /\ chat_trace' = <<>>
    /\ chat_base' = Len(openai_timestamps)
    /\ UNCHANGED <<openai_timestamps, chat_now>>
    /\ IF api_key_set
       THEN chat_pc' = "attempt" /\ chat_result' = ""
       ELSE chat_pc' = "raised" /\ chat_result' = "GPT_3_API_KEY not set"

\* one iteration of the for loop up to its return, raise or time.sleep
chat_attempt_step(o) ==
    /\ chat_pc = "attempt"
    /\ chat_outcomes' = Append(chat_outcomes, o)
    /\ openai_timestamps' = LimiterExit(LimiterEnter(openai_timestamps, chat_now), o.kind # "ok")
    /\ chat_trace' = chat_trace \o <<"acquire", "post">>
    /\ UNCHANGED <<chat_base, chat_now>>
    /\ IF o.kind = "ok"
       THEN /\ chat_pc' = "returned"
            /\ chat_result' = Strip(o.text)
       ELSE IF HardFailure(o)
       THEN /\ chat_pc' = "raised"
            /\ chat_result' = "OpenAI API error"
       ELSE IF CanRetry(chat_attempt)
       THEN /\ chat_pc' = "sleep"
            /\ chat_result' = ""
       ELSE /\ chat_pc' = "raised"
            /\ chat_result' = IF o.kind = "http" THEN "OpenAI API failed after retries"
                               ELSE "exception"
    /\ UNCHANGED <<chat_attempt, chat_delay, chat_sleeps, chat_calls>>

\* time.sleep(delay); delay *= 2; continue -- and the end of the for loop
\* when range(max_retries + 1) is used up
chat_sleep_step ==
    /\ chat_pc = "sleep"
    /\ chat_sleeps' = Append(chat_sleeps, chat_delay)
    /\ chat_trace' = Append(chat_trace, "sleep")
    /\ chat_now' = chat_now + chat_delay
    /\ UNCHANGED <<openai_timestamps, chat_base>>
    /\ chat_delay' = chat_delay * 2
    /\ chat_attempt' = chat_attempt + 1
    /\ IF chat_attempt + 1 <= MaxRetries
       THEN chat_pc' = "attempt" /\ chat_result' = ""
       ELSE chat_pc' = "raised" /\ chat_result' = "exception"
    /\ UNCHANGED <<chat_outcomes, chat_calls>>

ChatInit ==
    /\ chat_pc = "idle"
    /\ chat_attempt = 0
    /\ chat_delay = InitialDelay
    /\ chat_outcomes = <<>>
    /\ chat_sleeps = <<>>
    /\ chat_result = ""
    /\ chat_calls = 0
    /\ openai_timestamps = <<>>
    /\ chat_trace = <<>>
    /\ chat_base = 0
    /\ chat_now = 0

notChatVars == <<notifVars, rlVars, schedVars, logVars, uiVars, cvVars, letterVars, uploadVars,
          storeVars,
          backendsVars,
          skillVars,
          atsVars,
          pageVars,
          runVars,
          profileVars,
          eduVars,
          concVars,
          importVars>>

ChatCall == (\E k \in BOOLEAN : chat_completion(k)) /\ UNCHANGED notChatVars
ChatAttempt == (\E o \in Outcomes : chat_attempt_step(o)) /\ UNCHANGED notChatVars
ChatSleep == chat_sleep_step /\ UNCHANGED notChatVars

ChatNext ==
    \/ ChatCall
    \/ ChatAttempt
    \/ ChatSleep

(***************************************************************************)
(* Scheduler run                                                           *)
(***************************************************************************)
MaxBatch == 2         \* offers returned by one Adzuna fetch
MaxSchedRuns == 2     \* scheduler runs in one behaviour

\* offers as fetch_from_adzuna builds them; redirect_url may be missing
FetchedOffers ==
    { [url |-> "u1", title |-> "data analyst", location |-> "paris"],
      [url |-> "u2", title |-> "data scientist", location |-> "paris"],
      [url |-> "",   title |-> "data analyst", location |-> "paris"],
      [url |-> "u3", title |-> "chef de projet", location |-> "paris"],
      [url |-> "u4", title |-> "data analyst", location |-> "lyon"] }

SearchTitles == {"data analyst", "data scientist"}
JobLocation == "paris"

\* match_title and match_location of filter_offers_by_title_and_location,
\* on the titles and locations of the model
MatchTitle(title) == title # "" /\ title \in SearchTitles
MatchLocation(location) == location = JobLocation

FilterOffers(offers) ==
    SelectSeq(offers, LAMBDA o : MatchTitle(o.title) /\ MatchLocation(o.location))

\* offer.get('url', '') or offer.get('title', '')
SchedOfferId(o) == IF o.url # "" THEN o.url ELSE o.title

\* the loop over the fetched offers in fetch_new_jobs: the urls of the rows
\* added to the session. The session is made with autoflush=False, so the
\* filter_by(url=url) query sees the rows of the table and not the rows
\* added earlier in the same loop
PendingUrls(table, filtered) ==
    LET kept == SelectSeq(filtered, LAMBDA o : o.url # "" /\ o.url \notin table)
    IN [i \in 1..Len(kept) |-> kept[i].url]

\* session.commit(): the INSERTs are flushed; JobOffer.url is unique, so two
\* pending rows with one url make the commit raise
CommitRaises(pending) ==
    \E i, j \in 1..Len(pending) : i # j /\ pending[i] = pending[j]

\* the persist block of fetch_new_jobs: the table after it. A commit that
\* raises is caught and logged, and session.close() drops the pending rows
PersistOffers(table, filtered) ==
    LET pending == PendingUrls(table, filtered)
    IN IF CommitRaises(pending) THEN table ELSE table \cup Range(pending)

\* load_seen_offers: the urls of the table, else the side file
LoadSeenOffers(db, db_load_ok, table, file) ==
    IF db /\ db_load_ok THEN table ELSE file

\* the loop of main that builds new_offers and extends seen_ids
RECURSIVE NewOffers(_, _, _, _)
NewOffers(job_offers, i, seen, new) ==
    IF i > Len(job_offers) THEN [seen |-> seen, new |-> new]
    ELSE LET id == SchedOfferId(job_offers[i]) IN
         IF id # "" /\ id \notin seen
         THEN NewOffers(job_offers, i + 1, seen \cup {id}, Append(new, job_offers[i]))
         ELSE NewOffers(job_offers, i + 1, seen, new)

Ids(offers) == {SchedOfferId(offers[i]) : i \in 1..Len(offers)}

NoRun == [outcome |-> "none", db |-> FALSE, fault |-> "none", filtered |-> <<>>,
          known |-> {}, new |-> {}, scored |-> {}]

\* the import at the top of the script succeeded or not
DbMode(db) == IF db THEN "yes" ELSE "no"

\* one run of main(); fault is the one store failure of the run, if any
scheduler_main(db, cv_ok, source_ok, fetched, fault) ==
    /\ sched_runs < MaxSchedRuns
    /\ DB_AVAILABLE \in {"unset", DbMode(db)}
    /\ DB_AVAILABLE' = DbMode(db)
    /\ sched_runs' = sched_runs + 1
    /\ sched_processed' =
           sched_processed \cup (IF sched_last.fault = "none" THEN sched_last.scored ELSE {})
    /\ LET filtered == IF source_ok THEN FilterOffers(fetched) ELSE <<>>
           persisted == db /\ filtered # <<>> /\ fault # "db_persist"
           table1 == IF persisted THEN PersistOffers(job_offer_table, filtered)
                     ELSE job_offer_table
           seen_ids == LoadSeenOffers(db, fault # "db_load", table1, seen_file)
           r == NewOffers(filtered, 1, seen_ids, <<>>)
           known == IF db THEN job_offer_table ELSE seen_file
       IN IF ~cv_ok
          THEN /\ sched_last' = [NoRun EXCEPT !.outcome = "no_cv", !.db = db, !.fault = fault]
               /\ UNCHANGED <<job_offer_table, seen_file, job_offers_file>>
          ELSE IF filtered = <<>>
          THEN /\ sched_last' = [NoRun EXCEPT !.outcome = "no_offers", !.db = db, !.fault = fault]
               /\ UNCHANGED <<job_offer_table, seen_file, job_offers_file>>
          ELSE /\ job_offer_table' = table1
               /\ job_offers_file' = filtered
               /\ IF r.new = <<>>
                  THEN /\ sched_last' = [outcome |-> "nothing_new", db |-> db, fault |-> fault,
                                          filtered |-> filtered, known |-> known,
                                          new |-> {}, scored |-> {}]
                       /\ UNCHANGED seen_file
                  ELSE /\ sched_last' = [outcome |-> "completed", db |-> db, fault |-> fault,
                                          filtered |-> filtered, known |-> known,
                                          new |-> Ids(r.new), scored |-> Ids(r.new)]
                       /\ seen_file' = IF db \/ fault = "seen_save" THEN seen_file
                                       ELSE r.seen

SchedInit ==
    /\ DB_AVAILABLE = "unset"
    /\ job_offer_table = {}
    /\ seen_file = {}
    /\ job_offers_file = <<>>
    /\ sched_last = NoRun
    /\ sched_processed = {}
    /\ sched_runs = 0

notSchedVars == <<notifVars, rlVars, chatVars, logVars, uiVars, cvVars, letterVars, uploadVars,
          storeVars,
          backendsVars,
          skillVars,
          atsVars,
          pageVars,
          runVars,
          profileVars,
          eduVars,
          concVars,
          importVars>>

SchedFaults == {"none", "db_persist", "db_load", "seen_save"}

SchedRun ==
    /\ \E db \in BOOLEAN, cv_ok \in BOOLEAN, source_ok \in BOOLEAN,
          fetched \in SeqsUpTo(FetchedOffers, MaxBatch), fault \in SchedFaults :
           /\ ~source_ok => fetched = <<>>
           /\ fault \in {"db_persist", "db_load"} => db
           /\ fault = "seen_save" => ~db
           /\ scheduler_main(db, cv_ok, source_ok, fetched, fault)
    /\ UNCHANGED notSchedVars

SchedNext == SchedRun

(***************************************************************************)
(* Notification history logger                                             *)
(***************************************************************************)
HistoryLimit == 50    \* history[-50:]
MaxLogCalls == 52     \* log_notification calls served by the JSON backend
MaxDbRows == 2        \* rows the Notification table can take in one behaviour
MaxOddRecords == 1    \* records that are not the usual (1 job, "success")

LogJobCounts == {1, 3}
LogStatuses == {"success", "failed"}

\* history[-50:] taken from the wrong end
KeepLast_First(history) ==
    IF Len(history) <= HistoryLimit THEN history
    ELSE SubSeq(history, 1, HistoryLimit)

\* history[-50:]
KeepLast(history) ==
    IF Len(history) <= HistoryLimit THEN history
    ELSE SubSeq(history, Len(history) - HistoryLimit + 1, Len(history))

OddRecords(history) ==
    Cardinality({i \in 1..Len(history) :
                    history[i].job_count # 1 \/ history[i].status # "success"})

\* max(1, int(job_count or 1))
DbRowCount(job_count) == IF job_count >= 1 THEN job_count ELSE 1

\* log_notification; db_ok: the relational store is available and its
\* commit succeeds, otherwise the JSON fallback serves the call
log_notification(job_count, status, db_ok) ==
    IF db_ok
    THEN /\ notification_rows + DbRowCount(job_count) <= MaxDbRows
         /\ notification_rows' = notification_rows + DbRowCount(job_count)
         /\ UNCHANGED <<history_file, log_appended>>
    ELSE /\ Len(log_appended) < MaxLogCalls
         /\ LET notification == [timestamp |-> Len(log_appended) + 1,
                                 job_count |-> job_count, status |-> status]
            IN /\ (job_count # 1 \/ status # "success") =>
                      OddRecords(log_appended) < MaxOddRecords
               /\ history_file' = KeepLast(Append(history_file, notification))
               /\ log_appended' = Append(log_appended, notification)
         /\ UNCHANGED notification_rows

LogInit ==
    /\ history_file = <<>>
    /\ notification_rows = 0
    /\ log_appended = <<>>

notLogVars == <<notifVars, rlVars, chatVars, schedVars, uiVars, cvVars, letterVars, uploadVars,
          storeVars,
          backendsVars,
          skillVars,
          atsVars,
          pageVars,
          runVars,
          profileVars,
          eduVars,
          concVars,
          importVars>>

LogNotification ==
    /\ \E job_count \in LogJobCounts, status \in LogStatuses, db_ok \in BOOLEAN :
           log_notification(job_count, status, db_ok)
    /\ UNCHANGED notLogVars

LogNext == LogNotification

(***************************************************************************)
(* Offers tab of the dashboard                                             *)
(***************************************************************************)
MaxUIOffers == 2      \* offers loaded into the tab
MaxUIClicks == 2      \* favorite / viewed / hide clicks in one behaviour

UIUsers == {"Jordy", "Alice", "Guest"}
UICvNames == {"Jordy", "Alice"}      \* the names of load_cv_data()

\* analyzed offers; the last two have no url and share title and company
UIOffers ==
    { [url |-> "u1", title |-> "dev", company |-> "acme", ats_score |-> 85],
      [url |-> "",   title |-> "dev", company |-> "acme", ats_score |-> 55],
      [url |-> "",   title |-> "dev", company |-> "acme", ats_score |-> 95] }

StatusChoices == {"Toutes", "Nouvelles", "Vues", "Favorites"}
ScoreChoices == {"Tous", ">90%", ">80%", ">70%", ">60%", ">50%"}

\* job.get('url') or f"{title}::{company}"
offer_id(job) == IF job.url # "" THEN job.url ELSE job.title \o "::" \o job.company

\* the if / elif chain that sets min_score
MinScore(choice) ==
    CASE choice = ">90%" -> 90
      [] choice = ">80%" -> 80
      [] choice = ">70%" -> 70
      [] choice = ">60%" -> 60
      [] choice = ">50%" -> 50
      [] OTHER -> 0

EmptyUserState == [favorites |-> {}, viewed |-> {}, hidden |-> {}]

\* load_user_state: the user's entry, the empty state when there is none
load_user_state(file, user) == file[user]

\* "Exclure masquees" left out
NotHidden_ShowAll(job, hidden) == TRUE

\* offer_id(o) not in hidden
NotHidden(job, hidden) == offer_id(job) \notin hidden

\* the status filter
StatusOk(job, status, state) ==
    CASE status = "Nouvelles" -> offer_id(job) \notin state.viewed
      [] status = "Vues" -> offer_id(job) \in state.viewed
      [] status = "Favorites" -> offer_id(job) \in state.favorites
      [] OTHER -> TRUE

\* list.sort(key=ats_score, reverse=True): stable, descending
RECURSIVE InsertByAts(_, _)
InsertByAts(sorted, job) ==
    IF sorted = <<>> THEN <<job>>
    ELSE IF Head(sorted).ats_score >= job.ats_score
         THEN <<Head(sorted)>> \o InsertByAts(Tail(sorted), job)
         ELSE <<job>> \o sorted

RECURSIVE SortByAts(_)
SortByAts(jobs) ==
    IF jobs = <<>> THEN <<>>
    ELSE InsertByAts(SortByAts(SubSeq(jobs, 1, Len(jobs) - 1)), jobs[Len(jobs)])

\* one run of the Offers tab: the list it displays
Render(file, user, offers, status, score) ==
    IF user \notin UICvNames THEN <<>>
    ELSE LET state == load_user_state(file, user)
             byScore == SelectSeq(offers, LAMBDA o : o.ats_score >= MinScore(score))
             visible == SelectSeq(byScore, LAMBDA o : NotHidden(o, state.hidden))
             byStatus == SelectSeq(visible, LAMBDA o : StatusOk(o, status, state))
         IN SortByAts(byStatus)

RenderedIds == {offer_id(rendered[i]) : i \in 1..Len(rendered)}

\* a widget changes and the script reruns
ui_select(status, score) ==
    /\ filter_status' = status
    /\ filter_score' = score
    /\ rendered' = Render(user_state_file, current_user, ui_offers, status, score)
    /\ UNCHANGED <<user_state_file, current_user, ui_offers, ui_clicks>>

ui_switch_user(user) ==
    /\ current_user' = user
    /\ rendered' = Render(user_state_file, user, ui_offers, filter_status, filter_score)
    /\ UNCHANGED <<user_state_file, ui_offers, filter_status, filter_score, ui_clicks>>

\* a scan replaced the offers; the next run of the script loads them
ui_load_offers(offers) ==
    /\ ui_offers' = offers
    /\ rendered' = Render(user_state_file, current_user, offers, filter_status, filter_score)
    /\ UNCHANGED <<user_state_file, current_user, filter_status, filter_score, ui_clicks>>

\* save_user_state(current_user, user_state) followed by st.rerun()
SaveAndRerun(state) ==
    /\ ui_clicks < MaxUIClicks
    /\ ui_clicks' = ui_clicks + 1
    /\ user_state_file' = [user_state_file EXCEPT ![current_user] = state]
    /\ rendered' = Render(user_state_file', current_user, ui_offers, filter_status,
                          filter_score)
    /\ UNCHANGED <<current_user, ui_offers, filter_status, filter_score>>

ui_favorite(oid) ==
    /\ oid \in RenderedIds
    /\ LET state == load_user_state(user_state_file, current_user)
       IN SaveAndRerun([state EXCEPT !.favorites =
                           IF oid \in @ THEN @ \ {oid} ELSE @ \cup {oid}])

ui_mark_viewed(oid) ==
    /\ oid \in RenderedIds
    /\ LET state == load_user_state(user_state_file, current_user)
       IN SaveAndRerun([state EXCEPT !.viewed = @ \cup {oid}])

\* a hide button that would also mark the offer as viewed
ui_hide_AndView(oid) ==
    /\ oid \in RenderedIds
    /\ LET state == load_user_state(user_state_file, current_user)
       IN SaveAndRerun([state EXCEPT !.hidden = @ \cup {oid}, !.viewed = @ \cup {oid}])

ui_hide(oid) ==
    /\ oid \in RenderedIds
    /\ LET state == load_user_state(user_state_file, current_user)
       IN SaveAndRerun([state EXCEPT !.hidden = @ \cup {oid}])

UIInit ==
    /\ user_state_file = [u \in UIUsers |-> EmptyUserState]
    /\ current_user = "Jordy"
    /\ ui_offers = <<>>
    /\ filter_status = "Toutes"
    /\ filter_score = "Tous"
    /\ rendered = <<>>
    /\ ui_clicks = 0

notUIVars == <<notifVars, rlVars, chatVars, schedVars, logVars, cvVars, letterVars, uploadVars,
          storeVars,
          backendsVars,
          skillVars,
          atsVars,
          pageVars,
          runVars,
          profileVars,
          eduVars,
          concVars,
          importVars>>

UIOfferIds == {offer_id(o) : o \in UIOffers}

UISelect ==
    /\ \E status \in StatusChoices, score \in ScoreChoices : ui_select(status, score)
    /\ UNCHANGED notUIVars
UISwitchUser == (\E u \in UIUsers : ui_switch_user(u)) /\ UNCHANGED notUIVars
UILoadOffers ==
    /\ \E offers \in SeqsUpTo(UIOffers, MaxUIOffers) : ui_load_offers(offers)
    /\ UNCHANGED notUIVars
UIFavorite == (\E oid \in UIOfferIds : ui_favorite(oid)) /\ UNCHANGED notUIVars
UIMarkViewed == (\E oid \in UIOfferIds : ui_mark_viewed(oid)) /\ UNCHANGED notUIVars
UIHide == (\E oid \in UIOfferIds : ui_hide(oid)) /\ UNCHANGED notUIVars

UINext ==
    \/ UISelect
    \/ UISwitchUser
    \/ UILoadOffers
    \/ UIFavorite
    \/ UIMarkViewed
    \/ UIHide

(***************************************************************************)
(* CVAnalyzer                                                              *)
(***************************************************************************)
MaxCvs == 2           \* records given to one analyzer
MaxCvRuns == 2        \* analyze_cvs calls on one analyzer
MaxSkills == 25       \* found_skills[:25]

\* the files of the model: "" is a record without path, cv_missing.pdf does
\* not exist, cv_scan.pdf has no extractable text
CvPaths == {"", "cv_missing.pdf", "cv_scan.pdf", "cv_python.pdf", "cv_plain.pdf"}

\* safe_extract_pdf_text(path, fallback_text="")
extract_pdf_text(path) ==
    CASE path = "cv_python.pdf" -> "python sql 5 ans"
      [] path = "cv_plain.pdf" -> "bonjour"
      [] OTHER -> ""

\* the skills the vocabulary search finds in the texts of the model
FoundSkills(text) == IF text = "python sql 5 ans" THEN <<"python", "sql">> ELSE <<>>

\* extract_years_experience on the texts of the model
YearsOf(text) == IF text = "python sql 5 ans" THEN 5 ELSE 0

DefaultSkills == <<"python", "sql", "data analysis">>

\* found_skills[:25] if found_skills else ['python', 'sql', 'data analysis']
identify_skills(found) ==
    IF found # <<>>
    THEN SubSeq(found, 1, IF Len(found) < MaxSkills THEN Len(found) ELSE MaxSkills)
    ELSE DefaultSkills

\* a record without the 'analysis' key, with an empty one, with a pre-filled one
NoAnalysis == [present |-> FALSE, skills |-> <<>>, years_experience |-> 0]
EmptyAnalysis == [present |-> TRUE, skills |-> <<>>, years_experience |-> 0]
PrefilledAnalysis == [present |-> TRUE, skills |-> <<"excel">>, years_experience |-> 7]

CvRecords == [name : {"Jordy"}, path : CvPaths,
              analysis : {NoAnalysis, EmptyAnalysis, PrefilledAnalysis}]

\* the skip test of analyze_cvs, always false
AlreadyAnalyzed_Never(cv) == FALSE

\* 'analysis' in cv and cv['analysis'].get('skills')
AlreadyAnalyzed(cv) == cv.analysis.present /\ cv.analysis.skills # <<>>

\* the body of the for loop of analyze_cvs for one record
AnalyzeOne(cv) ==
    IF AlreadyAnalyzed(cv) THEN cv
    ELSE IF cv.path = "" THEN cv
    ELSE LET text == extract_pdf_text(cv.path) IN
         IF text = "" THEN cv
         ELSE [cv EXCEPT !.analysis =
                  [present |-> TRUE,
                   skills |-> identify_skills(FoundSkills(text)),
                   years_experience |-> YearsOf(text)]]

\* CVAnalyzer(cv_data)
cv_analyzer_init(records) ==
    /\ cv_data' = records
    /\ cv_runs' = 0

analyze_cvs ==
    /\ cv_runs < MaxCvRuns
    /\ cv_runs' = cv_runs + 1
    /\ cv_data' = [i \in 1..Len(cv_data) |-> AnalyzeOne(cv_data[i])]

\* the body of the loop gets past its three skip tests for this record
ReachesAnalysis(cv) ==
    ~AlreadyAnalyzed(cv) /\ cv.path # "" /\ extract_pdf_text(cv.path) # ""

\* the for loop of analyze_cvs when the body raises at record number raises:
\* the loop has no try block, so the exception leaves the loop and the
\* method; the records before it are analysed, the others are as they were
AnalyzeLoop(records, raises) ==
    [i \in 1..Len(records) |->
        IF i < raises THEN AnalyzeOne(records[i]) ELSE records[i]]

\* analyze_cvs when the tokenizer, the NER model or an extractor raises for
\* record number raises
analyze_cvs_raising(raises) ==
    /\ cv_runs < MaxCvRuns
    /\ raises \in 1..Len(cv_data)
    /\ ReachesAnalysis(cv_data[raises])
    /\ cv_runs' = cv_runs + 1
    /\ cv_data' = AnalyzeLoop(cv_data, raises)

CvInit ==
    /\ cv_data = <<>>
    /\ cv_runs = 0

notCvVars == <<notifVars, rlVars, chatVars, schedVars, logVars, uiVars, letterVars, uploadVars,
          storeVars,
          backendsVars,
          skillVars,
          atsVars,
          pageVars,
          runVars,
          profileVars,
          eduVars,
          concVars,
          importVars>>

CvConstruct ==
    /\ \E records \in SeqsUpTo(CvRecords, MaxCvs) : cv_analyzer_init(records)
    /\ UNCHANGED notCvVars
CvAnalyze == analyze_cvs /\ UNCHANGED notCvVars

CvNext ==
    \/ CvConstruct
    \/ CvAnalyze

CvAnalyzeRaises ==
    /\ \E raises \in 1..MaxCvs : analyze_cvs_raising(raises)
    /\ UNCHANGED notCvVars

\* the analyzer with runs in which one record makes the loop body raise
CvFailNext ==
    \/ CvConstruct
    \/ CvAnalyze
    \/ CvAnalyzeRaises

(***************************************************************************)
(* MotivationLetterGenerator                                               *)
(***************************************************************************)
MaxLetters == 3          \* letters written in one behaviour
MinKeyLength == 10       \* check_api_key(min_length=10)

ApiKeys == {"", "sk-short", "sk-0123456789"}

\* len(str(api_key)) on the keys of the model
KeyLength(api_key) ==
    CASE api_key = "" -> 0
      [] api_key = "sk-short" -> 8
      [] OTHER -> 13

\* check_api_key
check_api_key(api_key) == api_key # "" /\ KeyLength(api_key) >= MinKeyLength

\* the cache test of generate_letters, always false
SkipGenerated_Never(key, letters) == FALSE

\* "offer_key in self.generated_letters"
SkipGenerated(key, letters) == key \in DOMAIN letters

NoLetters == [k \in {} |-> ""]

NoLetterCall == [threshold |-> 0, raised |-> FALSE]

\* a _generate_with_gpt whose failure would not reach the template
LetterWriter_NoFallback(available, gpt_failed) ==
    IF available THEN "gpt" ELSE "template"

\* "if self.openai_available: _generate_with_gpt ... else: _generate_template",
\* and the except clause of _generate_with_gpt that returns the template
LetterWriter(available, gpt_failed) ==
    IF available /\ ~gpt_failed THEN "gpt" ELSE "template"

\* d[key] = value on a dict
DictSet(d, key, value) ==
    [k \in DOMAIN d \cup {key} |-> IF k = key THEN value ELSE d[k]]

\* the for loop of generate_letters over matched_offers, from index i on;
\* fails: the indices whose generation raises; gpt_fails: the indices whose
\* chat_completion fails, so that the template is used
RECURSIVE LetterLoop(_, _, _, _, _, _, _, _)
LetterLoop(matched, i, letters, serial, log, threshold, fails, gpt_fails) ==
    IF i > Len(matched) THEN [letters |-> letters, serial |-> serial, log |-> log]
    ELSE LET key == OfferKey(matched[i]) IN
         IF SkipGenerated(key, letters) \/ i \in fails
         THEN LetterLoop(matched, i + 1, letters, serial, log, threshold, fails, gpt_fails)
         ELSE LET letter == [written |-> serial + 1,
                             by |-> LetterWriter(openai_available, i \in gpt_fails),
                             title |-> matched[i].title,
                             company |-> matched[i].company]
              IN LetterLoop(matched, i + 1, DictSet(letters, key, letter), serial + 1,
                            Append(log, [key |-> key, letter |-> letter,
                                         match_score |-> matched[i].match_score,
                                         threshold |-> threshold,
                                         gpt_failed |-> (i \in gpt_fails)]),
                            threshold, fails, gpt_fails)

\* MotivationLetterGenerator(cv_analyzer, job_analyzer, gpt_api_key)
letter_generator_init(api_key) ==
    /\ generated_letters' = NoLetters
    /\ openai_available' = check_api_key(api_key)
    /\ letter_log' = <<>>
    /\ letter_op' = "init"
    /\ letter_call' = NoLetterCall
    /\ UNCHANGED letter_serial

generate_letters(threshold, fails, gpt_fails) ==
    /\ LET matched == MatchedOffers(analyzed_offers, threshold)
           res == LetterLoop(matched, 1, generated_letters, letter_serial, letter_log,
                             threshold, fails, gpt_fails)
       IN /\ fails \subseteq 1..Len(matched)
          /\ gpt_fails \subseteq 1..Len(matched)
          /\ (fails \cap gpt_fails) = {}
          /\ ~openai_available => gpt_fails = {}
          /\ \A i \in fails \cup gpt_fails : ~SkipGenerated(OfferKey(matched[i]), generated_letters)
          /\ res.serial <= MaxLetters
          /\ generated_letters' = res.letters
          /\ letter_serial' = res.serial
          /\ letter_log' = res.log
    /\ letter_op' = "generate"
    /\ letter_call' = [threshold |-> threshold, raised |-> (fails # {})]
    /\ UNCHANGED openai_available

clear_generated_letters ==
    /\ generated_letters # NoLetters
    /\ generated_letters' = NoLetters
    /\ letter_log' = <<>>
    /\ letter_op' = "clear"
    /\ letter_call' = NoLetterCall
    /\ UNCHANGED <<openai_available, letter_serial>>

LetterInit ==
    /\ generated_letters = NoLetters
    /\ openai_available = FALSE
    /\ letter_serial = 0
    /\ letter_log = <<>>
    /\ letter_op = "init"
    /\ letter_call = NoLetterCall

notLetterVars == <<rlVars, chatVars, schedVars, logVars, uiVars, cvVars, uploadVars,
          storeVars,
          backendsVars,
          skillVars,
          atsVars,
          pageVars,
          runVars,
          profileVars,
          eduVars,
          concVars,
          importVars>>

LetterConstruct ==
    /\ \E api_key \in ApiKeys : letter_generator_init(api_key)
    /\ UNCHANGED <<notifVars, notLetterVars>>
LetterCompare ==
    /\ \E offers \in SeqsUpTo(AnalyzedOffer, MaxOffers) : compare_job_offers(offers)
    /\ letter_op' = "compare"
    /\ UNCHANGED <<generated_letters, openai_available, letter_serial, letter_log, letter_call>>
    /\ UNCHANGED notLetterVars
LetterGenerate ==
    /\ \E threshold \in Thresholds, fails \in SUBSET (1..MaxOffers),
          gpt_fails \in SUBSET (1..MaxOffers) :
           generate_letters(threshold, fails, gpt_fails)
    /\ UNCHANGED <<notifVars, notLetterVars>>
LetterClear ==
    /\ clear_generated_letters
    /\ UNCHANGED <<notifVars, notLetterVars>>

LetterNext ==
    \/ LetterConstruct
    \/ LetterCompare
    \/ LetterGenerate
    \/ LetterClear

(***************************************************************************)
(* CV uploader                                                             *)
(***************************************************************************)
MaxUploads == 3       \* uploads in one behaviour

UploadNames == {"Ann Lee", "Bob Roy"}
UploadEmails == {"", "ann@example.com"}
\* what the NER and the e-mail regex find in the PDF; "" when nothing
ExtractedNames == {"", "Bob Roy"}
ExtractedEmails == {"", "ann@example.com"}

\* _sanitize_filename_part on the names of the model (only kept characters)
SanitizeFilenamePart(name) == name

\* f"cv - {safe_name}.pdf"
FinalFilename(name) == "cv - " \o SanitizeFilenamePart(name) \o ".pdf"

\* f"upload_{datetime.now().strftime('%Y%m%d_%H%M%S')}.pdf"
TmpFilename(now) == "upload_" \o ToString(now) \o ".pdf"

\* f"cv - {safe_name} {datetime.now().strftime('%Y%m%d_%H%M%S')}.pdf"
TimestampedFilename(name, now) ==
    "cv - " \o SanitizeFilenamePart(name) \o " " \o ToString(now) \o ".pdf"

\* open(path, 'wb').write(...): creates the file or replaces its content
WriteFile(files, name, content) ==
    [n \in DOMAIN files \cup {name} |-> IF n = name THEN content ELSE files[n]]

\* an os.replace that would leave an existing destination as it is
OsReplace_KeepExisting(files, src, dst) ==
    [n \in (DOMAIN files \ {src}) \cup {dst} |-> IF n = dst /\ dst \notin DOMAIN files THEN files[src] ELSE files[n]]

\* os.replace(src, dst): dst gets the content of src, whether or not dst
\* existed, and src is gone
OsReplace(files, src, dst) ==
    [n \in (DOMAIN files \ {src}) \cup {dst} |-> IF n = dst THEN files[src] ELSE files[n]]

LastTwo(log) == IF Len(log) <= 2 THEN log ELSE Tail(log)

\* the tuples the function returns
AnalysisFailed == <<"False", "Impossible d'analyser le CV", "[]">>
UploadRaised(user_name, user_email) == <<"False", "Erreur lors de l'analyse du CV", "[]", user_name, user_email>>
UploadDone(name, email) == <<"True", "CV analyse avec succes", "skills", name, email>>

\* x or y on strings
OrElse(x, y) == IF x # "" THEN x ELSE y

\* the rows a query's filter selects
UsersByEmail(users, email) == {i \in 1..Len(users) : users[i].email = email}
UsersByName(users, name) == {i \in 1..Len(users) : users[i].name = name}
CvsOfUser(cvs, uid) == {i \in 1..Len(cvs) : cvs[i].user_id = uid}
EntriesNamed(entries, a, b) ==
    {i \in 1..Len(entries) : entries[i].name = a \/ entries[i].name = b}

\* query.one_or_none(): 0 for no row, -1 for MultipleResultsFound, else the
\* index of the row
OneOrNone(m) ==
    IF m = {} THEN 0
    ELSE IF Cardinality(m) > 1 THEN -1
    ELSE CHOOSE i \in m : TRUE

\* the relational upsert; ok is FALSE when the block raises
DbUpsert(users, cvs, name, email, path, commit_ok) ==
    LET byEmail == IF email # "" THEN OneOrNone(UsersByEmail(users, email)) ELSE 0
        byName == IF byEmail = 0 THEN OneOrNone(UsersByName(users, name)) ELSE 0
        found == IF byEmail # 0 THEN byEmail ELSE byName
        users1 == IF found = 0
                  THEN Append(users, [id |-> Len(users) + 1, name |-> name, email |-> email])
                  ELSE users
        uid == IF found = 0 THEN Len(users) + 1
               ELSE IF found > 0 THEN users[found].id ELSE 0
        rows == CvsOfUser(cvs, uid)
        cvs1 == IF rows = {}
                THEN Append(cvs, [user_id |-> uid, file_path |-> path])
                ELSE LET first == CHOOSE i \in rows : \A j \in rows : i <= j
                     IN [cvs EXCEPT ![first].file_path = path]
    IN IF found = -1 \/ ~commit_ok
       THEN [ok |-> FALSE, users |-> users, cvs |-> cvs]
       ELSE [ok |-> TRUE, users |-> users1, cvs |-> cvs1]

\* the index of the first entry named user_name or extracted_name, 0 if none
FirstNamed(entries, user_name, extracted_name) ==
    LET m == EntriesNamed(entries, user_name, extracted_name)
    IN IF m = {} THEN 0 ELSE CHOOSE i \in m : \A j \in m : i <= j

\* the JSON fallback: replace the first entry with one of the two names,
\* else append
JsonUpsert(entries, user_name, extracted_name, email, path) ==
    LET entry == [name |-> extracted_name, email |-> email, path |-> path]
        i == FirstNamed(entries, user_name, extracted_name)
    IN IF i # 0 THEN [entries EXCEPT ![i] = entry] ELSE Append(entries, entry)

UploaderDbMode(db) == IF db THEN "yes" ELSE "no"

\* save_and_analyze_cv(uploaded_file, user_name, user_email); replace_ok and
\* replace2_ok tell whether the first and the second os.replace succeed, dt
\* is the time since the previous upload
save_and_analyze_cv(user_name, user_email, found_name, found_email, analysis_ok, db, commit_ok, replace_ok, replace2_ok, dt) ==
    LET now == upload_clock + dt
        serial == uploads + 1
        tmp == TmpFilename(now)
        files1 == WriteFile(data_files, tmp, serial)
        extracted_name == OrElse(found_name, user_name)
        extracted_email == OrElse(found_email, user_email)
        path == IF replace_ok THEN FinalFilename(extracted_name)
                ELSE TimestampedFilename(extracted_name, now)
        up == DbUpsert(users_table, cvs_table, extracted_name, extracted_email, path, commit_ok)
    IN
    /\ uploads < MaxUploads
    /\ uploads' = serial
    /\ upload_clock' = now
    /\ uploader_db \in {"unset", UploaderDbMode(db)}
    /\ uploader_db' = UploaderDbMode(db)
    /\ IF ~analysis_ok
       THEN /\ data_files' = files1
            /\ upload_result' = AnalysisFailed
            /\ UNCHANGED <<users_table, cvs_table, cv_data_json, upload_log>>
       ELSE IF ~replace_ok /\ ~replace2_ok
       THEN /\ data_files' = files1
            /\ upload_result' = UploadRaised(user_name, user_email)
            /\ UNCHANGED <<users_table, cvs_table, cv_data_json, upload_log>>
       ELSE /\ data_files' = OsReplace(files1, tmp, path)
            /\ upload_log' = LastTwo(Append(upload_log, [safe_name |-> SanitizeFilenamePart(extracted_name), path |-> path, content |-> serial, replaced |-> replace_ok]))
            /\ upload_result' = UploadDone(extracted_name, extracted_email)
            /\ IF db /\ up.ok
               THEN /\ users_table' = up.users
                    /\ cvs_table' = up.cvs
                    /\ UNCHANGED cv_data_json
               ELSE /\ cv_data_json' = JsonUpsert(cv_data_json, user_name, extracted_name, extracted_email, path)
                    /\ UNCHANGED <<users_table, cvs_table>>

UploadInit ==
    /\ uploader_db = "unset"
    /\ users_table = <<>>
    /\ cvs_table = <<>>
    /\ cv_data_json = <<>>
    /\ data_files = <<>>
    /\ upload_clock = 0
    /\ upload_result = <<>>
    /\ upload_log = <<>>
    /\ uploads = 0

notUploadVars == <<notifVars, rlVars, chatVars, schedVars, logVars, uiVars, cvVars,
                   letterVars,
          storeVars,
          backendsVars,
          skillVars,
          atsVars,
          pageVars,
          runVars,
          profileVars,
          eduVars,
          concVars,
          importVars>>

UploadCv ==
    /\ \E user_name \in UploadNames, user_email \in UploadEmails,
          found_name \in ExtractedNames, found_email \in ExtractedEmails,
          analysis_ok \in BOOLEAN, db \in BOOLEAN, commit_ok \in BOOLEAN,
          replace_ok \in BOOLEAN, replace2_ok \in BOOLEAN, dt \in 0..1 :
           /\ ~db => commit_ok
           /\ replace_ok => replace2_ok
           /\ ~analysis_ok => (found_name = "" /\ found_email = "" /\ commit_ok /\ replace_ok)
           /\ (~replace_ok /\ ~replace2_ok) => commit_ok
           /\ save_and_analyze_cv(user_name, user_email, found_name, found_email, analysis_ok, db, commit_ok, replace_ok, replace2_ok, dt)
    /\ UNCHANGED notUploadVars

UploadNext == UploadCv


(***************************************************************************)
(* User state store (src/app/utils/state_store.py)                         *)
(***************************************************************************)
MaxStoreCalls == 3    \* steps on the state file in one behaviour

StoreUsers == {"Jordy", "Alice"}
StoreIds == {"a", "b"}

\* the states a caller passes: lists of offer ids, duplicates included
StoreStates == [favorites : SeqsUpTo(StoreIds, 2), viewed : SeqsUpTo(StoreIds, 1), hidden : SeqsUpTo(StoreIds, 1)]

\* list(dict.fromkeys(xs)): the first occurrence of every element, in order
RECURSIVE DictFromKeys(_)
DictFromKeys(xs) ==
    IF xs = <<>> THEN <<>>
    ELSE LET front == DictFromKeys(SubSeq(xs, 1, Len(xs) - 1))
             last == xs[Len(xs)]
         IN IF last \in Range(front) THEN front ELSE Append(front, last)

\* what is on disk: no file, text that json.load rejects, a JSON list, or
\* a JSON object (data: user -> entry)
NoStateFile == [kind |-> "missing", data |-> <<>>]
CorruptStateFile == [kind |-> "corrupt", data |-> <<>>]
ListStateFile == [kind |-> "list", data |-> <<>>]

\* a reader that would start from an empty object every time
ReadStateFile_Empty(file) == <<>>

\* the data save_user_state starts from: {} when the file is missing or
\* json.load raises, else what json.load returns
ReadStateFile(file) ==
    IF file.kind \in {"missing", "corrupt"} THEN <<>> ELSE file.data

\* data[user_name] = {...}
SetEntry(data, user, entry) ==
    [u \in DOMAIN data \cup {user} |-> IF u = user THEN entry ELSE data[u]]

NormalizedState(state) ==
    [favorites |-> DictFromKeys(state.favorites), viewed |-> DictFromKeys(state.viewed), hidden |-> DictFromKeys(state.hidden)]

\* save_user_state(user_name, state); on a JSON list the item assignment
\* raises TypeError before anything is written
save_user_state(user_name, state) ==
    /\ store_calls < MaxStoreCalls
    /\ store_calls' = store_calls + 1
    /\ store_user' = user_name
    /\ IF STATE_FILE.kind = "list"
       THEN /\ store_op' = "raised"
            /\ UNCHANGED STATE_FILE
       ELSE /\ store_op' = "saved"
            /\ STATE_FILE' = [kind |-> "dict", data |-> SetEntry(ReadStateFile(STATE_FILE), user_name, NormalizedState(state))]

\* the file is removed or rewritten from outside the program
state_file_replaced(file) ==
    /\ store_calls < MaxStoreCalls
    /\ store_calls' = store_calls + 1
    /\ STATE_FILE # file
    /\ STATE_FILE' = file
    /\ store_op' = "replaced"
    /\ store_user' = ""

StoreInit ==
    /\ STATE_FILE = NoStateFile
    /\ store_op = "init"
    /\ store_user = ""
    /\ store_calls = 0

notStoreVars == <<notifVars, rlVars, chatVars, schedVars, logVars, uiVars, cvVars, letterVars, uploadVars,
          backendsVars,
          skillVars,
          atsVars,
          pageVars,
          runVars,
          profileVars,
          eduVars,
          concVars,
          importVars>>

StoreSave ==
    /\ \E u \in StoreUsers, s \in StoreStates : save_user_state(u, s)
    /\ UNCHANGED notStoreVars
StoreReplaced ==
    /\ \E f \in {NoStateFile, CorruptStateFile, ListStateFile} : state_file_replaced(f)
    /\ UNCHANGED notStoreVars

StoreNext ==
    \/ StoreSave
    \/ StoreReplaced


(***************************************************************************)
(* The two backends of the notification logger, fed the same calls         *)
(* (src/app/utils/notification_logger.py)                                  *)
(***************************************************************************)
MaxBackendCalls == 3  \* log_notification calls in one behaviour

BackendEmails == {"", "ann@example.com"}
BackendNames == {"Ann", "Bob"}
BackendJobCounts == {0, 1, 2}
BackendFilters == {"", "ann@example.com"}   \* user_email; "" is None
HistoryLimits == {1, 10}

\* x or None
OrNone(x) == IF x = "" THEN "None" ELSE x

Reverse(s) == [i \in 1..Len(s) |-> s[Len(s) + 1 - i]]
Repeat(x, n) == [i \in 1..n |-> x]
Take(s, n) == IF Len(s) <= n THEN s ELSE SubSeq(s, 1, n)

RECURSIVE SumJobCount(_)
SumJobCount(s) == IF s = <<>> THEN 0 ELSE s[1].job_count + SumJobCount(Tail(s))

\* the relational branch of log_notification: find or create the user, add
\* max(1, job_count) Notification rows
DbLogNotification(db, email, name, job_count, status, now) ==
    LET byEmail == IF email # "" THEN OneOrNone(UsersByEmail(db.users, email)) ELSE 0
        byName == IF byEmail = 0 /\ name # "" THEN OneOrNone(UsersByName(db.users, name)) ELSE 0
        found == IF byEmail # 0 THEN byEmail ELSE byName
        users1 == IF found = 0 THEN Append(db.users, [name |-> name, email |-> OrNone(email)]) ELSE db.users
        uid == IF found = 0 THEN Len(db.users) + 1 ELSE found
        row == [user_id |-> uid, sent_at |-> now, status |-> status]
    IN [users |-> users1, notifications |-> db.notifications \o Repeat(row, DbRowCount(job_count))]

\* the JSON branch of log_notification
JsonLogNotification(history, email, name, job_count, status, now) ==
    KeepLast(Append(history, [timestamp |-> now, recipient_email |-> email, recipient_name |-> name, job_count |-> job_count, status |-> status]))

\* query(Notification, User).join(...).filter(User.email == user_email)
DbJoined(db, user_email) ==
    SelectSeq(db.notifications, LAMBDA n : user_email = "" \/ db.users[n.user_id].email = user_email)

DbEntry(db, n) ==
    [timestamp |-> n.sent_at, recipient_email |-> db.users[n.user_id].email, recipient_name |-> db.users[n.user_id].name, job_count |-> 1, status |-> n.status]

\* get_notification_history on the relational backend; rows are added in
\* sent_at order, so sent_at descending is the reverse order
DbHistory(db, user_email, limit) ==
    LET rows == Reverse(DbJoined(db, user_email))
    IN Take([i \in 1..Len(rows) |-> DbEntry(db, rows[i])], limit)

\* get_notification_stats on the relational backend
DbStats(db, user_email) ==
    LET total_sent == Len(DbJoined(db, user_email))
    IN [total_sent |-> total_sent, total_jobs |-> total_sent]

\* [n for n in history if n.get('recipient_email') == user_email]
JsonFiltered(history, user_email) ==
    SelectSeq(history, LAMBDA n : user_email = "" \/ n.recipient_email = user_email)

\* get_notification_history on the JSON backend; the file is in timestamp
\* order, so the descending sort is the reverse order
JsonHistory(history, user_email, limit) ==
    Take(JsonFiltered(Reverse(history), user_email), limit)

\* get_notification_stats on the JSON backend
JsonStats(history, user_email) ==
    LET kept == JsonFiltered(history, user_email)
    IN [total_sent |-> Len(kept), total_jobs |-> SumJobCount(kept)]

\* one log_notification call, served once by each backend
log_notification_both(email, name, job_count, status) ==
    /\ backend_calls < MaxBackendCalls
    /\ backend_calls' = backend_calls + 1
    /\ backend_db' = DbLogNotification(backend_db, email, name, job_count, status, backend_calls + 1)
    /\ backend_json' = JsonLogNotification(backend_json, email, name, job_count, status, backend_calls + 1)

BackendsInit ==
    /\ backend_db = [users |-> <<>>, notifications |-> <<>>]
    /\ backend_json = <<>>
    /\ backend_calls = 0

notBackendsVars == <<notifVars, rlVars, chatVars, schedVars, logVars, uiVars, cvVars, letterVars, uploadVars, storeVars,
          skillVars,
          atsVars,
          pageVars,
          runVars,
          profileVars,
          eduVars,
          concVars,
          importVars>>

BackendsLog ==
    /\ \E email \in BackendEmails, name \in BackendNames, job_count \in BackendJobCounts, status \in LogStatuses :
           log_notification_both(email, name, job_count, status)
    /\ UNCHANGED notBackendsVars

BackendsNext == BackendsLog


(***************************************************************************)
(* JobOfferAnalyzer._calculate_skill_match                                 *)
(* (src/src/agents/job_offer_analyzer.py)                                  *)
(***************************************************************************)
MaxRequired == 3      \* length of a required-skill list
MaxCvSkills == 2      \* length of a candidate-skill list

RequiredSkillNames == {"python", "sql", "data analysis"}
CvSkillNames == {"python", "mysql", "statistical analysis"}

\* the number of characters SequenceMatcher(None, a, b) matches, for the
\* skill names of the model (pairs left out match no character)
MatchingChars ==
    <<"python", "python">> :> 6 @@
    <<"python", "data analysis">> :> 1 @@
    <<"python", "mysql">> :> 1 @@
    <<"python", "statistical analysis">> :> 1 @@
    <<"sql", "sql">> :> 3 @@
    <<"sql", "data analysis">> :> 1 @@
    <<"sql", "mysql">> :> 3 @@
    <<"sql", "statistical analysis">> :> 2 @@
    <<"data analysis", "python">> :> 2 @@
    <<"data analysis", "sql">> :> 1 @@
    <<"data analysis", "data analysis">> :> 13 @@
    <<"data analysis", "mysql">> :> 2 @@
    <<"data analysis", "statistical analysis">> :> 12 @@
    <<"mysql", "python">> :> 1 @@
    <<"mysql", "sql">> :> 3 @@
    <<"mysql", "data analysis">> :> 2 @@
    <<"mysql", "mysql">> :> 5 @@
    <<"mysql", "statistical analysis">> :> 2 @@
    <<"statistical analysis", "python">> :> 2 @@
    <<"statistical analysis", "sql">> :> 2 @@
    <<"statistical analysis", "data analysis">> :> 11 @@
    <<"statistical analysis", "mysql">> :> 2 @@
    <<"statistical analysis", "statistical analysis">> :> 20

\* SequenceMatcher(None, a, b).ratio() = 2 * M / T, as the fraction num / den
SequenceMatcherRatio(a, b) ==
    [num |-> 2 * (IF <<a, b>> \in DOMAIN MatchingChars THEN MatchingChars[<<a, b>>] ELSE 0), den |-> Len(a) + Len(b)]

\* x > y on fractions with positive denominators
FractionGreater(x, y) == x.num * y.den > y.num * x.den

\* a threshold of 0.8 in place of 0.7
AtLeastThreshold_Higher(x) == 10 * x.num >= 8 * x.den

\* similarity >= 0.7
AtLeastThreshold(x) == 10 * x.num >= 7 * x.den

\* the inner loop over cv_skills from index j on; best is "" for None
RECURSIVE BestCvSkill(_, _, _, _, _)
BestCvSkill(req_skill, cv_skills, j, best_sim, best_cv_skill) ==
    IF j > Len(cv_skills) THEN best_cv_skill
    ELSE LET similarity == SequenceMatcherRatio(req_skill, cv_skills[j])
         IN IF FractionGreater(similarity, best_sim) /\ AtLeastThreshold(similarity)
            THEN BestCvSkill(req_skill, cv_skills, j + 1, similarity, cv_skills[j])
            ELSE BestCvSkill(req_skill, cv_skills, j + 1, best_sim, best_cv_skill)

\* the outer loop over required_skills from index i on
RECURSIVE SkillMatchLoop(_, _, _, _, _)
SkillMatchLoop(required_skills, cv_skills, i, matched, match_count) ==
    IF i > Len(required_skills) THEN [matched |-> matched, match_count |-> match_count]
    ELSE LET req_skill == required_skills[i]
             best_cv_skill == BestCvSkill(req_skill, cv_skills, 1, [num |-> 0, den |-> 1], "")
         IN IF req_skill \in Range(cv_skills)
            THEN SkillMatchLoop(required_skills, cv_skills, i + 1, Append(matched, req_skill), match_count + 1)
            ELSE IF best_cv_skill # ""
            THEN SkillMatchLoop(required_skills, cv_skills, i + 1, Append(matched, req_skill \o " (similar: " \o best_cv_skill \o ")"), match_count + 1)
            ELSE SkillMatchLoop(required_skills, cv_skills, i + 1, matched, match_count)

\* _calculate_skill_match: (matched_skills, score), the score as a fraction
CalculateSkillMatch(required_skills, cv_skills) ==
    IF required_skills = <<>> \/ cv_skills = <<>>
    THEN [matched |-> <<>>, score |-> [num |-> 0, den |-> 1]]
    ELSE LET r == SkillMatchLoop(required_skills, cv_skills, 1, <<>>, 0)
         IN [matched |-> r.matched, score |-> [num |-> r.match_count, den |-> Len(required_skills)]]

calculate_skill_match(required_skills, cv_skills) ==
    /\ <<required_skills, cv_skills>> # <<skill_required, skill_cv>>
    /\ skill_required' = required_skills
    /\ skill_cv' = cv_skills
    /\ skill_result' = CalculateSkillMatch(required_skills, cv_skills)

SkillInit ==
    /\ skill_required = <<>>
    /\ skill_cv = <<>>
    /\ skill_result = CalculateSkillMatch(<<>>, <<>>)

notSkillVars == <<notifVars, rlVars, chatVars, schedVars, logVars, uiVars, cvVars, letterVars, uploadVars, storeVars, backendsVars,
          atsVars,
          pageVars,
          runVars,
          profileVars,
          eduVars,
          concVars,
          importVars>>

SkillMatch ==
    /\ skill_required = <<>>
    /\ skill_cv = <<>>
    /\ \E required_skills \in SeqsUpTo(RequiredSkillNames, MaxRequired), cv_skills \in SeqsUpTo(CvSkillNames, MaxCvSkills) :
           calculate_skill_match(required_skills, cv_skills)
    /\ UNCHANGED notSkillVars

SkillNext == SkillMatch


(***************************************************************************)
(* JobOfferAnalyzer ATS scoring: _score_offer and the best-CV loop of      *)
(* _analyze_single_offer (src/src/agents/job_offer_analyzer.py)            *)
(* Scores are in ten-thousandths (0.58 is 5800); a component is a fraction. *)
(***************************************************************************)
MaxAtsCvs == 2        \* CV records given to one _analyze_single_offer

\* _WEIGHTS, in hundredths
Weights == [skills |-> 60, experience |-> 20, education |-> 15, location |-> 5]

\* _EDU_ORDER
EduOrder == [none |-> 0, bac |-> 1, bachelor |-> 2, master |-> 3, phd |-> 4]

AtsCvNames == <<"cv1", "cv2", "cv3", "cv4">>
AtsCvBodies == [skills : {{}, {"python"}}, years_experience : {2, 5}, education_level : {"none", "master"}, remote : BOOLEAN]
AtsOffers == [skills : {{}, {"python", "sql", "docker"}}, skill_hints : {{}, {"sql"}}, required_years : {0, 3}, required_education : {"none", "phd"}, location : {"paris", "remote"}]

\* the CV lists: the i-th record is named AtsCvNames[i]
AtsCvLists == UNION {[1..n -> AtsCvBodies] : n \in 1..MaxAtsCvs}
NamedCv(body, i) == [name |-> AtsCvNames[i], skills |-> body.skills, years_experience |-> body.years_experience, education_level |-> body.education_level, remote |-> body.remote]

One == [num |-> 1, den |-> 1]
Zero == [num |-> 0, den |-> 1]
Max(a, b) == IF a >= b THEN a ELSE b

\* len(common) / max(1, len(offer_skills)), or 1.0 / 0.0 without offer skills
SkillsScore(cv, offer) ==
    LET offer_skills == offer.skills \cup offer.skill_hints
        common == cv.skills \cap offer_skills
    IN IF offer_skills # {}
       THEN [num |-> Cardinality(common), den |-> Max(1, Cardinality(offer_skills))]
       ELSE IF cv.skills # {} THEN One ELSE Zero

\* an experience score without the min(1.0, ...)
ExpScore_NoCap(cv, offer) ==
    IF offer.required_years <= 0 THEN One
    ELSE [num |-> cv.years_experience, den |-> offer.required_years]

\* 1.0 if req_years <= 0 else min(1.0, cv_years / req_years)
ExpScore(cv, offer) ==
    IF offer.required_years <= 0 THEN One
    ELSE IF cv.years_experience >= offer.required_years THEN One
    ELSE [num |-> cv.years_experience, den |-> offer.required_years]

\* 1.0 if cv_rank >= req_rank else cv_rank / max(1, req_rank)
EduScore(cv, offer) ==
    LET cv_rank == EduOrder[cv.education_level]
        req_rank == EduOrder[offer.required_education]
    IN IF cv_rank >= req_rank THEN One ELSE [num |-> cv_rank, den |-> Max(1, req_rank)]

\* 1.0 for a remote location, else 1.0 if not prefers_remote else 0.6
LocScore(cv, offer) ==
    IF offer.location = "remote" THEN One
    ELSE IF ~cv.remote THEN One ELSE [num |-> 3, den |-> 5]

\* round(n / d), ties to even
RoundHalfEven(n, d) ==
    LET q == n \div d
        r == n % d
    IN IF 2 * r < d THEN q
       ELSE IF 2 * r > d THEN q + 1
       ELSE IF q % 2 = 0 THEN q ELSE q + 1

\* the weighted sum of four fractions, as one fraction of ten-thousandths
WeightedTotal(s, e, d, l) ==
    [num |-> 100 * (Weights.skills * s.num * e.den * d.den * l.den + Weights.experience * e.num * s.den * d.den * l.den + Weights.education * d.num * s.den * e.den * l.den + Weights.location * l.num * s.den * e.den * d.den), den |-> s.den * e.den * d.den * l.den]

\* _score_offer: round(total, 4)
ScoreOffer(cv, offer) ==
    LET total == WeightedTotal(SkillsScore(cv, offer), ExpScore(cv, offer), EduScore(cv, offer), LocScore(cv, offer))
    IN RoundHalfEven(total.num, total.den)

\* a comparison that lets a later CV with an equal score win
BetterScore_OrEqual(score, best_score) == score >= best_score

\* score > best_score
BetterScore(score, best_score) == score > best_score

\* the loop "for cv in cv_data" from index i on; best_score starts at -1.0
\* and best is the index of best_match_cv (0 for None)
RECURSIVE BestCvLoop(_, _, _, _, _)
BestCvLoop(cvs, offer, i, best_score, best) ==
    IF i > Len(cvs) THEN [ats_score |-> best_score, best_match_cv |-> IF best = 0 THEN "None" ELSE cvs[best].name]
    ELSE LET score == ScoreOffer(cvs[i], offer)
         IN IF BetterScore(score, best_score)
            THEN BestCvLoop(cvs, offer, i + 1, score, i)
            ELSE BestCvLoop(cvs, offer, i + 1, best_score, best)

\* the ATS part of _analyze_single_offer, for a non-empty cv_data
analyze_single_offer(cvs, offer) ==
    /\ ats_cvs' = cvs
    /\ ats_offer' = offer
    /\ ats_result' = BestCvLoop(cvs, offer, 1, -10000, 0)

AtsInit ==
    /\ ats_cvs = <<>>
    /\ ats_offer = [skills |-> {}, skill_hints |-> {}, required_years |-> 0, required_education |-> "none", location |-> ""]
    /\ ats_result = [ats_score |-> -10000, best_match_cv |-> "None"]

notAtsVars == <<notifVars, rlVars, chatVars, schedVars, logVars, uiVars, cvVars, letterVars, uploadVars, storeVars, backendsVars, skillVars,
          pageVars,
          runVars,
          profileVars,
          eduVars,
          concVars,
          importVars>>

\* one call in a behaviour
AtsAnalyze ==
    /\ ats_cvs = <<>>
    /\ \E bodies \in AtsCvLists, offer \in AtsOffers :
           analyze_single_offer([i \in 1..Len(bodies) |-> NamedCv(bodies[i], i)], offer)
    /\ UNCHANGED notAtsVars

AtsNext == AtsAnalyze


(***************************************************************************)
(* The page state machine of the dashboard (src/app/landing.py); every     *)
(* action is one interaction and the rerun of the script it triggers       *)
(***************************************************************************)
MaxPageEvents == 8    \* interactions in one session

PageSelections == {"Accueil", "Mon Profil", "Mes Offres"}
PageProfiles == {"Jordy", "Alice"}

\* leaving the landing page or coming back builds the sidebar anew
FreshSelection == "Accueil"

PageEvent(name) ==
    /\ page_events < MaxPageEvents
    /\ page_events' = page_events + 1
    /\ page_event' = name

\* the sphere button of the landing page: go_to_dashboard()
go_to_dashboard ==
    /\ page = "landing"
    /\ PageEvent("sphere")
    /\ page' = "dashboard"
    /\ page_selection' = FreshSelection
    /\ UNCHANGED <<page_user, scanning>>

\* a return button that would name a page the script does not know
return_to_landing_Home ==
    /\ page = "dashboard"
    /\ PageEvent("return")
    /\ page' = "home"
    /\ UNCHANGED <<page_selection, page_user, scanning>>

\* "Retour à l'accueil"
return_to_landing ==
    /\ page = "dashboard"
    /\ PageEvent("return")
    /\ page' = "landing"
    /\ UNCHANGED <<page_selection, page_user, scanning>>

\* the navigation radio of the sidebar
navigate(selection) ==
    /\ page = "dashboard"
    /\ selection # page_selection
    /\ PageEvent("navigate")
    /\ page_selection' = selection
    /\ UNCHANGED <<page, page_user, scanning>>

\* the "Profil actif" select box, or the name field and its button
select_profile(user) ==
    /\ page = "dashboard"
    /\ user # page_user
    /\ PageEvent("profile")
    /\ page_user' = user
    /\ UNCHANGED <<page, page_selection, scanning>>

\* "Lancer un Scan d'Offres": scanning is set, the scan runs, scanning is
\* cleared, the script reruns
run_scan ==
    /\ page = "dashboard"
    /\ page_selection = "Accueil"
    /\ ~scanning
    /\ PageEvent("scan")
    /\ scanning' = FALSE
    /\ UNCHANGED <<page, page_selection, page_user>>

\* "Analyser ce CV": on success the active profile becomes final_name
analyze_cv(success, final_name) ==
    /\ page = "dashboard"
    /\ page_selection = "Mon Profil"
    /\ PageEvent("upload")
    /\ page_user' = IF success THEN final_name ELSE page_user
    /\ UNCHANGED <<page, page_selection, scanning>>

\* "Enregistrer mon profil"
save_profile ==
    /\ page = "dashboard"
    /\ page_selection = "Mon Profil"
    /\ PageEvent("save")
    /\ UNCHANGED <<page, page_selection, page_user, scanning>>

\* the favorite, viewed and hide buttons of an offer card
toggle_offer ==
    /\ page = "dashboard"
    /\ page_selection = "Mes Offres"
    /\ PageEvent("toggle")
    /\ UNCHANGED <<page, page_selection, page_user, scanning>>

PageInit ==
    /\ page = "landing"
    /\ page_selection = FreshSelection
    /\ page_user = "Jordy"
    /\ scanning = FALSE
    /\ page_event = "start"
    /\ page_events = 0

notPageVars == <<notifVars, rlVars, chatVars, schedVars, logVars, uiVars, cvVars, letterVars, uploadVars, storeVars, backendsVars, skillVars, atsVars,
          runVars,
          profileVars,
          eduVars,
          concVars,
          importVars>>

PageGoToDashboard == go_to_dashboard /\ UNCHANGED notPageVars
PageReturnToLanding == return_to_landing /\ UNCHANGED notPageVars
PageNavigate == (\E selection \in PageSelections : navigate(selection)) /\ UNCHANGED notPageVars
PageSelectProfile == (\E user \in PageProfiles : select_profile(user)) /\ UNCHANGED notPageVars
PageRunScan == run_scan /\ UNCHANGED notPageVars
PageAnalyzeCv == (\E success \in BOOLEAN, final_name \in PageProfiles : analyze_cv(success, final_name)) /\ UNCHANGED notPageVars
PageSaveProfile == save_profile /\ UNCHANGED notPageVars
PageToggleOffer == toggle_offer /\ UNCHANGED notPageVars

PageNext ==
    \/ PageGoToDashboard
    \/ PageReturnToLanding
    \/ PageNavigate
    \/ PageSelectProfile
    \/ PageRunScan
    \/ PageAnalyzeCv
    \/ PageSaveProfile
    \/ PageToggleOffer


(***************************************************************************)
(* The recipient loop of scripts/run_once_notify.py and                    *)
(* scripts/scheduler.py: one agent for the run, one send per CV holder     *)
(***************************************************************************)
MaxRecipients == 2    \* entries of cv_data in one run
MaxPrefs == 2         \* entries of user_prefs

RunNames == {"Ann", "Bob"}
RunEmails == {"", "user@example.com", "env@example.com"}
RunCv == [name : RunNames, email : RunEmails]

\* has_score: min_match_score is an int or a float; the score is in percent
UserPref ==
    {[name |-> "Ann", email |-> "user@example.com", has_score |-> TRUE, min_match_score |-> 50],
     [name |-> "Bob", email |-> "env@example.com", has_score |-> FALSE, min_match_score |-> 0],
     [name |-> "Bob", email |-> "", has_score |-> TRUE, min_match_score |-> 90]}

\* the offers of the run, as compare_job_offers leaves them
RunOffers == [1..MaxOffers -> [title : {"dev"}, company : Companies, match_score : Scores]]

\* the indices of the preferences with
\* p.get('email') == recipient_email or p.get('name') == recipient_name
PrefsOf(prefs, recipient_email, recipient_name) ==
    {p \in 1..Len(prefs) : prefs[p].email = recipient_email \/ prefs[p].name = recipient_name}

\* next((p for p in user_prefs if ...), None) and the assignment that
\* follows it: the threshold of the agent after the try block, in percent
\* (float(pref['min_match_score']) / 100.0 on the 0..1 scale of the agent);
\* current is the threshold of the agent before it
AppliedThreshold(current, prefs, recipient_email, recipient_name) ==
    LET found == PrefsOf(prefs, recipient_email, recipient_name)
    IN IF found = {} THEN current
       ELSE LET pref == prefs[CHOOSE p \in found : \A q \in found : p <= q]
            IN IF pref.has_score THEN pref.min_match_score ELSE current

\* the start of the run: the data is loaded, the offers are analyzed and
\* NotificationAgent(job_analyzer, email_sender) is built with its default
\* threshold
run_start(cvs, prefs, offers) ==
    /\ run_pc = "idle"
    /\ run_cvs' = cvs
    /\ user_prefs' = prefs
    /\ analyzed_offers' = offers
    /\ min_match_score' = DefaultMinMatchScore
    /\ run_i' = 1
    /\ run_pc' = "loop"
    /\ UNCHANGED <<sent_notifications, outbox, notif_calls, run_log>>

\* the head of the loop body: a CV without email is passed over; otherwise
\* the preference of the recipient, if any, is assigned to the agent
apply_preference ==
    /\ run_pc = "loop"
    /\ run_i <= Len(run_cvs)
    /\ LET cv == run_cvs[run_i]
       IN IF cv.email = ""
          THEN /\ run_i' = run_i + 1
               /\ UNCHANGED <<min_match_score, run_pc>>
          ELSE /\ min_match_score' = AppliedThreshold(min_match_score, user_prefs, cv.email, cv.name)
               /\ run_pc' = "send"
               /\ UNCHANGED run_i
    /\ UNCHANGED <<analyzed_offers, sent_notifications, outbox, notif_calls, run_cvs, user_prefs, run_log>>

\* send_notifications(recipient_email=..., force=True, ...) for the CV
send_to_recipient(fails) ==
    /\ run_pc = "send"
    /\ LET cv == run_cvs[run_i]
       IN /\ send_notifications(cv.email, "", TRUE, fails)
          /\ run_log' = Append(run_log, [name |-> cv.name, email |-> cv.email,
                                         threshold |-> min_match_score])
    /\ run_i' = run_i + 1
    /\ run_pc' = "loop"
    /\ UNCHANGED <<run_cvs, user_prefs>>

\* the loop is over
run_completed ==
    /\ run_pc = "loop"
    /\ run_i > Len(run_cvs)
    /\ run_pc' = "done"
    /\ UNCHANGED <<notifVars, run_cvs, user_prefs, run_i, run_log>>

RunInit ==
    /\ run_cvs = <<>>
    /\ user_prefs = <<>>
    /\ run_i = 1
    /\ run_pc = "idle"
    /\ run_log = <<>>

notRunVars == <<rlVars, chatVars, schedVars, logVars, uiVars, cvVars, letterVars, uploadVars, storeVars, backendsVars, skillVars, atsVars, pageVars,
          profileVars,
          eduVars,
          concVars,
          importVars>>

RunStart ==
    /\ \E cvs \in SeqsUpTo(RunCv, MaxRecipients), prefs \in SeqsUpTo(UserPref, MaxPrefs), offers \in RunOffers :
           run_start(cvs, prefs, offers)
    /\ UNCHANGED notRunVars
RunApplyPreference == apply_preference /\ UNCHANGED notRunVars
RunSend ==
    /\ \E fails \in SUBSET (1..MaxOffers) : send_to_recipient(fails)
    /\ UNCHANGED notRunVars
RunCompleted == run_completed /\ UNCHANGED notRunVars

RunNext ==
    \/ RunStart
    \/ RunApplyPreference
    \/ RunSend
    \/ RunCompleted


(***************************************************************************)
(* Profile saver (src/app/utils/profile_saver.py)                          *)
(***************************************************************************)
MaxProfileCalls == 3  \* save_user_profile calls in one behaviour

ProfileNames == {"Jordy", "Alice"}
ProfileEmails == {"", "jordy@example.com"}
ProfileScores == {50, 80}

ProfileSaved == <<"True", "Profil sauvegarde avec succes !">>
ProfileDbError == <<"False", "Erreur lors de la sauvegarde (DB)">>
ProfileError == <<"False", "Erreur lors de la sauvegarde">>

\* a relational branch that would keep the rows of a failed transaction
PrefUpsert_NoRollback(users, prefs, user_name, email, match_score, commit_ok) ==
    LET users1 == Append(users, [id |-> Len(users) + 1, name |-> user_name, email |-> email])
    IN [ok |-> FALSE, users |-> users1, prefs |-> prefs]

\* the relational branch of save_user_profile: the user is looked up by email
\* then by name and created if absent, the preference row of the user is
\* created or updated, and the session is committed; when a query or the
\* commit raises, session.rollback() leaves both tables as they were
PrefUpsert(users, prefs, user_name, email, match_score, commit_ok) ==
    LET byEmail == IF email # "" THEN OneOrNone(UsersByEmail(users, email)) ELSE 0
        byName == IF byEmail = 0 THEN OneOrNone(UsersByName(users, user_name)) ELSE 0
        found == IF byEmail # 0 THEN byEmail ELSE byName
        users1 == IF found = 0
                  THEN Append(users, [id |-> Len(users) + 1, name |-> user_name, email |-> email])
                  ELSE users
        uid == IF found = 0 THEN Len(users) + 1
               ELSE IF found > 0 THEN users[found].id ELSE 0
        rows == {i \in 1..Len(prefs) : prefs[i].user_id = uid}
        prefs1 == IF rows = {}
                  THEN Append(prefs, [user_id |-> uid, min_match_score |-> match_score])
                  ELSE [i \in 1..Len(prefs) |->
                           IF i \in rows THEN [prefs[i] EXCEPT !.min_match_score = match_score]
                           ELSE prefs[i]]
    IN IF found = -1 \/ ~commit_ok
       THEN [ok |-> FALSE, users |-> users, prefs |-> prefs]
       ELSE [ok |-> TRUE, users |-> users1, prefs |-> prefs1]

\* the JSON branch: the first entry named user_name is updated, else an entry
\* is appended
PrefJsonUpsert(preferences, user_name, email, match_score) ==
    LET entry == [name |-> user_name, email |-> email, min_match_score |-> match_score]
        m == {i \in 1..Len(preferences) : preferences[i].name = user_name}
    IN IF m = {} THEN Append(preferences, entry)
       ELSE [preferences EXCEPT ![CHOOSE i \in m : \A j \in m : i <= j] = entry]

ProfileDbMode(db) == IF db THEN "yes" ELSE "no"

\* save_user_profile(user_name, profile_data); commit_ok: the relational
\* transaction succeeds, write_ok: user_preferences.json can be written
save_user_profile(user_name, email, match_score, db, commit_ok, write_ok) ==
    LET up == PrefUpsert(profile_users, preferences_table, user_name, email, match_score, commit_ok)
    IN
    /\ profile_calls < MaxProfileCalls
    /\ profile_calls' = profile_calls + 1
    /\ profile_db \in {"unset", ProfileDbMode(db)}
    /\ profile_db' = ProfileDbMode(db)
    /\ profile_last' = [user_name |-> user_name, email |-> email, match_score |-> match_score]
    /\ IF db
       THEN /\ profile_users' = up.users
            /\ preferences_table' = up.prefs
            /\ profile_result' = IF up.ok THEN ProfileSaved ELSE ProfileDbError
            /\ UNCHANGED user_preferences_json
       ELSE /\ UNCHANGED <<profile_users, preferences_table>>
            /\ IF write_ok
               THEN /\ user_preferences_json' = PrefJsonUpsert(user_preferences_json, user_name, email, match_score)
                    /\ profile_result' = ProfileSaved
               ELSE /\ UNCHANGED user_preferences_json
                    /\ profile_result' = ProfileError

ProfileInit ==
    /\ profile_db = "unset"
    /\ profile_users = <<>>
    /\ preferences_table = <<>>
    /\ user_preferences_json = <<>>
    /\ profile_result = <<>>
    /\ profile_last = [user_name |-> "", email |-> "", match_score |-> 0]
    /\ profile_calls = 0

notProfileVars == <<notifVars, rlVars, chatVars, schedVars, logVars, uiVars, cvVars, letterVars, uploadVars, storeVars, backendsVars, skillVars, atsVars, pageVars, runVars,
          eduVars,
          concVars,
          importVars>>

ProfileSave ==
    /\ \E user_name \in ProfileNames, email \in ProfileEmails, match_score \in ProfileScores, db \in BOOLEAN, commit_ok \in BOOLEAN, write_ok \in BOOLEAN :
           /\ db => write_ok
           /\ ~db => commit_ok
           /\ save_user_profile(user_name, email, match_score, db, commit_ok, write_ok)
    /\ UNCHANGED notProfileVars

ProfileNext == ProfileSave

\* the three writers that prefer the relational store; a behaviour
\* exercises one of them
WritersUpload == LogInit /\ ProfileInit /\ UploadCv
WritersLog == UploadInit /\ ProfileInit /\ LogNotification
WritersProfile == UploadInit /\ LogInit /\ ProfileSave

WritersNext ==
    \/ WritersUpload
    \/ WritersLog
    \/ WritersProfile


(***************************************************************************)
(* From the analysis the CV agent stores to the education component of     *)
(* the ATS score (cv_analyzer.py 109-118, job_offer_analyzer.py 332-337)   *)
(***************************************************************************)
EduLevels == {"none", "bac", "bachelor", "master", "phd"}
EduYears == {0, 2, 5}
EduSkills == {{}, {"python"}}

\* cv['analysis'] = {...} at the end of the loop body of analyze_cvs, with
\* the keys the model follows; education is extract_education_level(text)
StoredAnalysis(skills, years_exp, education) ==
    [skills |-> skills, years_experience |-> years_exp, education |-> education]

\* str(analysis.get('education_level') or 'none').lower()
ReadEducationLevel(analysis) ==
    IF "education_level" \in DOMAIN analysis THEN analysis.education_level ELSE "none"

\* the CV as _score_offer reads it
ReadCv(analysis) ==
    [skills |-> analysis.skills, years_experience |-> analysis.years_experience, education_level |-> ReadEducationLevel(analysis), remote |-> TRUE]

\* analyze_cvs stores the analysis of a CV whose text shows the given
\* education, then _score_offer scores the record against an offer
score_analyzed_cv(skills, years_exp, education, required_education) ==
    LET analysis == StoredAnalysis(skills, years_exp, education)
        offer == [skills |-> {"python"}, skill_hints |-> {}, required_years |-> 3, required_education |-> required_education, location |-> "paris"]
    IN /\ edu_analysis' = analysis
       /\ edu_offer' = offer
       /\ edu_score' = EduScore(ReadCv(analysis), offer)
       /\ edu_total' = ScoreOffer(ReadCv(analysis), offer)

EduInit ==
    /\ edu_analysis = StoredAnalysis({}, 0, "none")
    /\ edu_offer = [skills |-> {}, skill_hints |-> {}, required_years |-> 0, required_education |-> "none", location |-> ""]
    /\ edu_score = One
    /\ edu_total = -10000

notEduVars == <<notifVars, rlVars, chatVars, schedVars, logVars, uiVars, cvVars, letterVars, uploadVars, storeVars, backendsVars, skillVars, atsVars, pageVars, runVars, profileVars,
          concVars,
          importVars>>

\* one CV and one offer in a behaviour
EduScoreCv ==
    /\ edu_total = -10000
    /\ \E skills \in EduSkills, years_exp \in EduYears, education \in EduLevels, required_education \in EduLevels :
           score_analyzed_cv(skills, years_exp, education, required_education)
    /\ UNCHANGED notEduVars

EduNext == EduScoreCv


(***************************************************************************)
(* Two processes on the shared JSON files: save_user_state                 *)
(* (state_store.py 33-52) and the JSON branch of log_notification          *)
(* (notification_logger.py 54-71). A process reads the file, changes its   *)
(* copy and writes the copy back; nothing is locked in between.            *)
(***************************************************************************)
ConcProcs == {1, 2}
ConcUser == <<"Jordy", "Alice">>      \* the user each process works for
ConcOps == {"state", "log"}
ConcStates == {[favorites |-> <<"a">>, viewed |-> <<>>, hidden |-> <<>>], [favorites |-> <<"a", "a">>, viewed |-> <<"b">>, hidden |-> <<>>]}
ConcJobCounts == {1, 3}

NoCall == [op |-> "none", user |-> "", state |-> [favorites |-> <<>>, viewed |-> <<>>, hidden |-> <<>>], job_count |-> 0, timestamp |-> 0]

\* the notification dict of log_notification
ConcRecord(call) ==
    [timestamp |-> call.timestamp, recipient_name |-> call.user, job_count |-> call.job_count]

\* a write that would read the file again and merge
WriteBack_Merging(files, loaded, call) ==
    IF call.op = "state"
    THEN [files EXCEPT !.state = [kind |-> "dict", data |-> SetEntry(ReadStateFile(files.state), call.user, NormalizedState(call.state))]]
    ELSE [files EXCEPT !.log = KeepLast(Append(files.log, ConcRecord(call)))]

\* open(..., 'w') and json.dump of the changed copy: the file becomes the
\* copy, whatever it holds by now
WriteBack(files, loaded, call) ==
    IF call.op = "state"
    THEN [files EXCEPT !.state = [kind |-> "dict", data |-> SetEntry(loaded, call.user, NormalizedState(call.state))]]
    ELSE [files EXCEPT !.log = KeepLast(Append(loaded, ConcRecord(call)))]

\* json.load at the start of the call: the copy the process works on
LoadCopy(files, op) ==
    IF op = "state" THEN ReadStateFile(files.state) ELSE files.log

\* the first half of a call: the file is read
conc_read(p, op, state, job_count) ==
    /\ conc_pc[p] = "idle"
    /\ conc_clock' = conc_clock + 1
    /\ conc_call' = [conc_call EXCEPT ![p] = [op |-> op, user |-> ConcUser[p], state |-> state, job_count |-> job_count, timestamp |-> conc_clock + 1]]
    /\ conc_data' = [conc_data EXCEPT ![p] = LoadCopy(shared_files, op)]
    /\ conc_read_at' = [conc_read_at EXCEPT ![p] = conc_clock + 1]
    /\ conc_pc' = [conc_pc EXCEPT ![p] = "loaded"]
    /\ UNCHANGED <<shared_files, conc_write_at>>

\* the second half: the copy is written
conc_write(p) ==
    /\ conc_pc[p] = "loaded"
    /\ conc_clock' = conc_clock + 1
    /\ shared_files' = WriteBack(shared_files, conc_data[p], conc_call[p])
    /\ conc_write_at' = [conc_write_at EXCEPT ![p] = conc_clock + 1]
    /\ conc_pc' = [conc_pc EXCEPT ![p] = "done"]
    /\ UNCHANGED <<conc_call, conc_data, conc_read_at>>

ConcInit ==
    /\ shared_files = [state |-> NoStateFile, log |-> <<>>]
    /\ conc_pc = [p \in ConcProcs |-> "idle"]
    /\ conc_call = [p \in ConcProcs |-> NoCall]
    /\ conc_data = [p \in ConcProcs |-> <<>>]
    /\ conc_read_at = [p \in ConcProcs |-> 0]
    /\ conc_write_at = [p \in ConcProcs |-> 0]
    /\ conc_clock = 0

notConcVars == <<notifVars, rlVars, chatVars, schedVars, logVars, uiVars, cvVars, letterVars, uploadVars, storeVars, backendsVars, skillVars, atsVars, pageVars, runVars, profileVars, eduVars,
          importVars>>

ConcRead ==
    /\ \E p \in ConcProcs, op \in ConcOps, state \in ConcStates, job_count \in ConcJobCounts :
           /\ op = "state" => job_count = 1
           /\ op = "log" => state = CHOOSE s \in ConcStates : Len(s.favorites) = 1
           /\ conc_read(p, op, state, job_count)
    /\ UNCHANGED notConcVars
ConcWrite ==
    /\ \E p \in ConcProcs : conc_write(p)
    /\ UNCHANGED notConcVars

ConcNext ==
    \/ ConcRead
    \/ ConcWrite


(***************************************************************************)
(* import_from_json of scripts/db_setup.py: the users of cv_data.json,     *)
(* user_preferences.json and notification_history.json are resolved or     *)
(* created in one session (autoflush=False) and committed at the end.      *)
(* job_offers.json is absent.                                              *)
(***************************************************************************)
MaxImportEntries == 2     \* entries in each of the three JSON files

ImportNames == {"Jordy", "Alice"}
ImportEmails == {"", "jordy@x.com"}      \* "": the entry has no email
ImportEntry == [name : ImportNames, email : ImportEmails]
ImportFile == SeqsUpTo(ImportEntry, MaxImportEntries)

\* entry.get('name') or 'Utilisateur'
NameOr(name) == IF name = "" THEN "Utilisateur" ELSE name

\* f"{name}@example.com"
ExampleEmail(name) == name \o "@example.com"

\* the session: the rows it can query, the Preference objects added and not
\* yet flushed, and whether a statement has raised
OpenSession(users, rows) ==
    [users |-> users, cvs |-> rows.cvs, prefs |-> rows.prefs, pending |-> <<>>,
     notifications |-> rows.notifications, raised |-> FALSE]

\* the INSERT of the pending Preference rows: two rows for one user_id
\* violate the primary key
PendingConflict(s) ==
    \/ \E i, j \in 1..Len(s.pending) : i # j /\ s.pending[i] = s.pending[j]
    \/ \E i \in 1..Len(s.pending) : s.pending[i] \in s.prefs

\* session.add(User(name, email)); session.flush(): email is NOT NULL and
\* unique, and the flush also writes the pending Preference rows
AddUser(s, name, email) ==
    IF email = "" \/ UsersByEmail(s.users, email) # {} \/ PendingConflict(s)
    THEN [s EXCEPT !.raised = TRUE]
    ELSE [s EXCEPT !.users = Append(@, [id |-> Len(@) + 1, name |-> name, email |-> email]),
                   !.prefs = @ \cup Range(s.pending),
                   !.pending = <<>>]

\* one entry of cv_data.json: the user is looked up by email only
ImportCv(s, entry) ==
    LET name == NameOr(entry.name)
        found == IF entry.email # "" THEN UsersByEmail(s.users, entry.email) ELSE {}
    IN IF Cardinality(found) > 1 THEN [s EXCEPT !.raised = TRUE]
       ELSE IF found # {}
       THEN [s EXCEPT !.cvs = Append(@, CHOOSE i \in found : TRUE)]
       ELSE LET t == AddUser(s, name, IF entry.email # "" THEN entry.email ELSE ExampleEmail(name))
            IN IF t.raised THEN t ELSE [t EXCEPT !.cvs = Append(@, Len(t.users))]

\* the Preference of a resolved user: queried among the flushed rows, added
\* to the session when the query finds none
UpsertPreference(s, user) ==
    IF user \in s.prefs THEN s ELSE [s EXCEPT !.pending = Append(@, user)]

\* one entry of user_preferences.json: email, then name, created only with
\* an email; an entry that resolves to no user is skipped
ImportPreference(s, entry) ==
    LET byEmail == IF entry.email # "" THEN UsersByEmail(s.users, entry.email) ELSE {}
        byName == IF byEmail = {} /\ entry.name # "" THEN UsersByName(s.users, entry.name) ELSE {}
        found == byEmail \cup byName
    IN IF Cardinality(found) > 1 THEN [s EXCEPT !.raised = TRUE]
       ELSE IF found # {} THEN UpsertPreference(s, CHOOSE i \in found : TRUE)
       ELSE IF entry.email # ""
       THEN LET t == AddUser(s, NameOr(entry.name), entry.email)
            IN IF t.raised THEN t ELSE UpsertPreference(t, Len(t.users))
       ELSE s

\* one entry of notification_history.json: email, then name, else created
\* with the email of the entry, which may be None
ImportNotification(s, entry) ==
    LET name == NameOr(entry.name)
        byEmail == IF entry.email # "" THEN UsersByEmail(s.users, entry.email) ELSE {}
        byName == IF byEmail = {} THEN UsersByName(s.users, name) ELSE {}
        found == byEmail \cup byName
    IN IF Cardinality(found) > 1 THEN [s EXCEPT !.raised = TRUE]
       ELSE IF found # {}
       THEN [s EXCEPT !.notifications = Append(@, CHOOSE i \in found : TRUE)]
       ELSE LET t == AddUser(s, name, entry.email)
            IN IF t.raised THEN t ELSE [t EXCEPT !.notifications = Append(@, Len(t.users))]

ImportOne(kind, s, entry) ==
    CASE kind = "cv" -> ImportCv(s, entry)
      [] kind = "preference" -> ImportPreference(s, entry)
      [] OTHER -> ImportNotification(s, entry)

\* one of the three for loops; an exception leaves it at once
RECURSIVE ImportLoop(_, _, _, _)
ImportLoop(kind, entries, i, s) ==
    IF s.raised \/ i > Len(entries) THEN s
    ELSE ImportLoop(kind, entries, i + 1, ImportOne(kind, s, entries[i]))

\* session.commit(): the pending rows are written
ImportCommit(s) ==
    IF s.raised \/ PendingConflict(s) THEN [s EXCEPT !.raised = TRUE]
    ELSE [s EXCEPT !.prefs = @ \cup Range(s.pending), !.pending = <<>>]

import_from_json(cv_list, pref_list, notif_list) ==
    LET s0 == OpenSession(import_users, import_rows)
        s1 == ImportLoop("cv", cv_list, 1, s0)
        s2 == ImportLoop("preference", pref_list, 1, s1)
        s3 == ImportLoop("notification", notif_list, 1, s2)
        s4 == ImportCommit(s3)
    IN /\ import_files' = [cv |-> cv_list, preference |-> pref_list, notification |-> notif_list]
       /\ IF s4.raised
          THEN /\ import_result' = "raised"
               /\ UNCHANGED <<import_users, import_rows>>
          ELSE /\ import_result' = "completed"
               /\ import_users' = s4.users
               /\ import_rows' = [cvs |-> s4.cvs, prefs |-> s4.prefs, notifications |-> s4.notifications]

ImportInit ==
    /\ import_users = <<>>
    /\ import_rows = [cvs |-> <<>>, prefs |-> {}, notifications |-> <<>>]
    /\ import_result = "idle"
    /\ import_files = [cv |-> <<>>, preference |-> <<>>, notification |-> <<>>]

notImportVars == <<notifVars, rlVars, chatVars, schedVars, logVars, uiVars, cvVars, letterVars, uploadVars, storeVars, backendsVars, skillVars, atsVars, pageVars, runVars, profileVars, eduVars, concVars>>

ImportRun ==
    /\ import_result = "idle"
    /\ \E cv_list \in ImportFile, pref_list \in ImportFile, notif_list \in ImportFile :
           import_from_json(cv_list, pref_list, notif_list)
    /\ UNCHANGED notImportVars

ImportNext ==
    \/ ImportRun

Init ==
    /\ NotifInit
    /\ RLInit
    /\ ChatInit
    /\ SchedInit
    /\ LogInit
    /\ UIInit
    /\ CvInit
    /\ LetterInit
    /\ UploadInit
    /\ StoreInit
    /\ BackendsInit
    /\ SkillInit
    /\ AtsInit
    /\ PageInit
    /\ RunInit
    /\ ProfileInit
    /\ EduInit
    /\ ConcInit
    /\ ImportInit

SpecNotif == Init /\ [][NotifNext]_vars
SpecRL == Init /\ [][RLNext]_vars
SpecChat == Init /\ [][ChatNext]_vars
SpecSched == Init /\ [][SchedNext]_vars
SpecLog == Init /\ [][LogNext]_vars
SpecUI == Init /\ [][UINext]_vars
SpecCv == Init /\ [][CvNext]_vars
SpecCvFail == Init /\ [][CvFailNext]_vars
SpecLetter == Init /\ [][LetterNext]_vars
SpecUpload == Init /\ [][UploadNext]_vars
\* a started call keeps running: the HTTP request returns or times out (the
\* request has timeout=30) and time.sleep ends
SpecChatFair == SpecChat /\ WF_vars(ChatAttempt) /\ WF_vars(ChatSleep)
SpecStore == Init /\ [][StoreNext]_vars
SpecBackends == Init /\ [][BackendsNext]_vars
SpecSkill == Init /\ [][SkillNext]_vars
SpecAts == Init /\ [][AtsNext]_vars
SpecPage == Init /\ [][PageNext]_vars
SpecRun == Init /\ [][RunNext]_vars
SpecProfile == Init /\ [][ProfileNext]_vars
SpecWriters == Init /\ [][WritersNext]_vars
SpecEdu == Init /\ [][EduNext]_vars
SpecConc == Init /\ [][ConcNext]_vars
SpecImport == Init /\ [][ImportNext]_vars

(***************************************************************************)
(* C2                                                                      *)
(***************************************************************************)
\* C2: no more than max_requests acquisitions are recorded within a window
\* of length time_window: the (k+M)-th recorded timestamp is at least W
\* later than the k-th.
C2_AtMostMPerWindow ==
    \A k \in 1..Len(rl_recorded) :
        k + RLMaxRequests <= Len(rl_recorded) =>
            rl_recorded[k + RLMaxRequests] - rl_recorded[k] >= RLTimeWindow

(***************************************************************************)
(* C1                                                                      *)
(***************************************************************************)
NotifKeys == {t \o "_" \o c : t \in Titles, c \in Companies}

\* number of mails in the outbox for key k sent by the calls in cs
Dispatched(k, cs) ==
    Cardinality({i \in 1..Len(outbox) : outbox[i].key = k /\ outbox[i].call \in cs})

\* number of matched offers of call c that carry key k
MatchedCount(k, c) ==
    Cardinality({j \in 1..Len(notif_calls[c].matched) : notif_calls[c].matched[j] = k})

\* call c ran its loop (offers, valid recipient, a match) and no mail failed
GoodSend(c) ==
    /\ notif_calls[c].kind = "send"
    /\ notif_calls[c].ran
    /\ notif_calls[c].mail_ok

\* the sent list was empty when call c started
FreshAt(c) == c = 1 \/ notif_calls[c - 1].kind = "clear"

\* calls c and c+1 are two successful sends, with the given force, that both
\* match key k
TwoSends(c, k, force) ==
    /\ FreshAt(c)
    /\ GoodSend(c) /\ GoodSend(c + 1)
    /\ notif_calls[c].force = force /\ notif_calls[c + 1].force = force
    /\ MatchedCount(k, c) >= 1 /\ MatchedCount(k, c + 1) >= 1

\* C1: two send_notifications calls on one agent, valid recipient, mail
\* client succeeding, the same key matched in both: with force=false the
\* key's email is dispatched exactly once in total; with force=true every
\* matched offer is dispatched in each call (twice for one offer).
C1_ForceFalseOnceForceTrueTwice ==
    \A c \in 1..(Len(notif_calls) - 1) : \A k \in NotifKeys :
        /\ TwoSends(c, k, FALSE) => Dispatched(k, {c, c + 1}) = 1
        /\ TwoSends(c, k, TRUE) =>
               Dispatched(k, {c, c + 1}) = MatchedCount(k, c) + MatchedCount(k, c + 1)

\* two force=false sends of the same matched key have happened, and two
\* force=true sends are possible as well (the second disjunct is reached in
\* its own states)
C1_Witness ==
    \E c \in 1..(Len(notif_calls) - 1) : \E k \in NotifKeys :
        /\ TwoSends(c, k, FALSE)
        /\ Dispatched(k, {c, c + 1}) = 1

(***************************************************************************)
(* C3                                                                      *)
(***************************************************************************)
ChatRunning == chat_pc \in {"attempt", "sleep"}
ChatDone == chat_pc \in {"returned", "raised"}

AllRetryable == \A i \in 1..Len(chat_outcomes) : Retryable(chat_outcomes[i])

C3_Safety ==
    /\ Len(chat_outcomes) <= 4
    /\ (ChatRunning /\ chat_pc = "attempt") => Len(chat_outcomes) = Len(chat_sleeps)
    /\ (chat_outcomes # <<>> /\ AllRetryable) =>
           /\ ChatDone => /\ chat_pc = "raised"
                           /\ Len(chat_outcomes) = 4
                           /\ chat_sleeps = <<1, 2, 4>>
           /\ \A i \in 1..Len(chat_sleeps) : chat_sleeps[i] = <<1, 2, 4>>[i]
    /\ chat_pc = "returned" =>
           /\ chat_outcomes[Len(chat_outcomes)].kind = "ok"
           /\ chat_result = Strip(chat_outcomes[Len(chat_outcomes)].text)
           /\ chat_result = "Bonjour"

\* C3: a call whose every attempt fails with 429/500/502/503/504 or with a
\* transient exception makes exactly 4 attempts, sleeping 1, 2 and 4 s before
\* attempts 2, 3 and 4, then raises; no call makes more than 4 attempts; and
\* every call ends with the trimmed text or a raised failure.
C3_FourAttemptsBackoffTerminates ==
    /\ []C3_Safety
    /\ (ChatRunning ~> ChatDone)

\* a call has raised after four retryable failures
C3_Witness ==
    /\ chat_pc = "raised"
    /\ Len(chat_outcomes) = 4
    /\ AllRetryable
    /\ chat_sleeps = <<1, 2, 4>>

(***************************************************************************)
(* C4, C5                                                                  *)
(***************************************************************************)
\* the last run went through the unseen-subset computation without a fault
SchedRanClean ==
    /\ sched_last.outcome \in {"nothing_new", "completed"}
    /\ sched_last.fault = "none"

\* C4: every fetched offer that passed the filter and whose identity was
\* not known before the run started is in the unseen subset and is scored in
\* that run, on the relational-store path and on the JSON-only path.
C4_UnknownOffersAreProcessed ==
    SchedRanClean =>
        \A i \in 1..Len(sched_last.filtered) :
            LET o == sched_last.filtered[i] IN
                (IF sched_last.db THEN o.url \notin sched_last.known
                 ELSE SchedOfferId(o) \notin sched_last.known)
                    => /\ SchedOfferId(o) \in sched_last.new
                       /\ SchedOfferId(o) \in sched_last.scored

\* C5: an offer processed by an earlier completed run is never in the
\* unseen subset of a later run, on both paths, also without a url.
C5_ProcessedAtMostOnce ==
    SchedRanClean => sched_last.new \cap sched_processed = {}

(***************************************************************************)
(* C6                                                                      *)
(***************************************************************************)
Min(a, b) == IF a <= b THEN a ELSE b

\* C6: after n log_notification calls served by the JSON backend the file
\* holds exactly the min(n, 50) most recently appended records, in append
\* order.
C6_FileHoldsLast50 ==
    LET n == Len(log_appended)
        k == Min(n, 50)
    IN /\ Len(history_file) = k
       /\ \A i \in 1..k : history_file[i] = log_appended[n - k + i]

\* more than 50 records were appended and the file was truncated
C6_Witness ==
    /\ Len(log_appended) > 50
    /\ Len(history_file) = 50
    /\ history_file[1] # log_appended[1]

(***************************************************************************)
(* C7                                                                      *)
(***************************************************************************)
ActiveHidden == user_state_file[current_user].hidden

\* C7: whatever the status filter and the score floor, an offer whose
\* identifier is in the active user's hidden set is not in the rendered
\* result list.
C7_HiddenNeverRendered ==
    \A i \in 1..Len(rendered) : offer_id(rendered[i]) \notin ActiveHidden

\* the active user has hidden an offer that is loaded and that passes the
\* score floor and the status filter, while another offer is displayed
C7_Witness ==
    /\ rendered # <<>>
    /\ \E i \in 1..Len(ui_offers) :
           /\ offer_id(ui_offers[i]) \in ActiveHidden
           /\ ui_offers[i].ats_score >= MinScore(filter_score)
           /\ StatusOk(ui_offers[i], filter_status, user_state_file[current_user])
           /\ filter_status # "Toutes"
           /\ filter_score # "Tous"

(***************************************************************************)
(* C8                                                                      *)
(***************************************************************************)
\* the step is a call of analyze_cvs
IsAnalyzeStep == cv_runs' = cv_runs + 1

\* after a run every record whose file has text carries a non-empty skills
\* list
C8_AnalyzedHaveSkills ==
    cv_runs >= 1 =>
        \A i \in 1..Len(cv_data) :
            (cv_data[i].path # "" /\ extract_pdf_text(cv_data[i].path) # "")
                => cv_data[i].analysis.skills # <<>>

C8_StepIdempotent ==
    IsAnalyzeStep =>
        /\ \A i \in 1..Len(cv_data) :
               cv_data[i].analysis.skills # <<>> =>
                   cv_data'[i].analysis = cv_data[i].analysis
        /\ cv_runs >= 1 => cv_data' = cv_data

\* C8: analyze_cvs leaves the analysis of a record whose skills are already
\* non-empty unchanged; a successful analysis stores a non-empty skills list;
\* so a second analyze_cvs over the same records changes nothing.
C8_AnalyzeIdempotent ==
    /\ []C8_AnalyzedHaveSkills
    /\ [][C8_StepIdempotent]_vars

\* a second run has been made over a list with a pre-filled record whose
\* file would give other skills and a record the first run analysed
C8_Witness ==
    /\ cv_runs = 2
    /\ \E i \in 1..Len(cv_data) :
           /\ cv_data[i].analysis = PrefilledAnalysis
           /\ cv_data[i].path = "cv_python.pdf"
    /\ \E j \in 1..Len(cv_data) :
           /\ cv_data[j].analysis.skills = DefaultSkills
           /\ cv_data[j].path = "cv_plain.pdf"

(***************************************************************************)
(* C9                                                                      *)
(***************************************************************************)
\* at most one letter was written per key since the last clear, each for an
\* offer at or above the threshold of its call, and the cache holds it
C9_OncePerKeyAboveThreshold ==
    /\ \A i, j \in 1..Len(letter_log) :
           letter_log[i].key = letter_log[j].key => i = j
    /\ \A i \in 1..Len(letter_log) :
           /\ letter_log[i].match_score >= letter_log[i].threshold
           /\ letter_log[i].key \in DOMAIN generated_letters
           /\ generated_letters[letter_log[i].key] = letter_log[i].letter

\* a cached letter stays as it is until clear_generated_letters (or a new
\* generator) empties the cache
C9_CachedLetterKept ==
    letter_op' \notin {"clear", "init"} =>
        \A k \in DOMAIN generated_letters :
            /\ k \in DOMAIN generated_letters'
            /\ generated_letters'[k] = generated_letters[k]

\* C9: for one generator, a letter is generated at most once per key: once
\* a key is cached its text is never regenerated or replaced until
\* clear_generated_letters, and letters are only generated for offers with
\* match_score >= the threshold of the call.
C9_LetterOncePerKey ==
    /\ []C9_OncePerKeyAboveThreshold
    /\ [][C9_CachedLetterKept]_vars

\* a second generate_letters call found a matched offer already cached and
\* wrote another one
C9_Witness ==
    /\ letter_op = "generate"
    /\ Len(letter_log) = 2
    /\ letter_log[2].letter.written > letter_log[1].letter.written
    /\ \E i \in 1..Len(analyzed_offers) :
           /\ OfferKey(analyzed_offers[i]) = letter_log[1].key
           /\ analyzed_offers[i].match_score >= letter_log[2].threshold

(***************************************************************************)
(* C10                                                                     *)
(***************************************************************************)
\* C10: after any sequence of uploads no two stored CV records belong to
\* the same user: each user id has at most one CV row, and no two entries of
\* cv_data.json carry the same name.
C10_OneCvPerUser ==
    /\ \A i, j \in 1..Len(cvs_table) :
           cvs_table[i].user_id = cvs_table[j].user_id => i = j
    /\ \A i, j \in 1..Len(cv_data_json) :
           cv_data_json[i].name = cv_data_json[j].name => i = j

(***************************************************************************)
(* C11                                                                     *)
(***************************************************************************)
\* C11: save_and_analyze_cv returns a 5-tuple (success, message, skills,
\* final_name, final_email) on every path, the path where the PDF yields no
\* analysis included, so that the 5-way unpacking of the dashboard works.
C11_ReturnsFiveTuple ==
    uploads > 0 => Len(upload_result) = 5

(***************************************************************************)
(* C12                                                                     *)
(***************************************************************************)
\* C12 as stated: two successive uploads that derive the same sanitized name
\* leave two distinct files, the second with a timestamp suffix, and the file
\* of the first is not overwritten.
C12_SameNameKeepsBothFiles ==
    \A i \in 1..(Len(upload_log) - 1) :
        upload_log[i].safe_name = upload_log[i + 1].safe_name =>
            /\ upload_log[i + 1].path # upload_log[i].path
            /\ upload_log[i + 1].path # FinalFilename(upload_log[i + 1].safe_name)
            /\ upload_log[i].path \in DOMAIN data_files
            /\ data_files[upload_log[i].path] = upload_log[i].content

\* C12 as amended: an upload whose os.replace succeeds is stored as
\* "cv - <name>.pdf" and a timestamp suffix is used only when os.replace
\* raised; of two successive uploads with the same sanitized name that
\* os.replace both stored, one file remains and it holds the second upload.
C12_SameNameLatestOverwrites ==
    /\ \A i \in 1..Len(upload_log) :
           upload_log[i].replaced <=> upload_log[i].path = FinalFilename(upload_log[i].safe_name)
    /\ \A i \in 1..(Len(upload_log) - 1) :
           (/\ upload_log[i].safe_name = upload_log[i + 1].safe_name
            /\ upload_log[i].replaced
            /\ upload_log[i + 1].replaced)
               => /\ upload_log[i + 1].path = upload_log[i].path
                  /\ upload_log[i].path \in DOMAIN data_files
                  /\ data_files[upload_log[i].path] = upload_log[i + 1].content

\* two uploads with the same name were stored by os.replace, one after the
\* other, and the second has replaced the file of the first
C12_Witness ==
    /\ Len(upload_log) = 2
    /\ upload_log[1].safe_name = upload_log[2].safe_name
    /\ upload_log[1].replaced /\ upload_log[2].replaced
    /\ upload_log[1].content < upload_log[2].content
    /\ data_files[upload_log[2].path] = upload_log[2].content


(***************************************************************************)
(* C13                                                                     *)
(***************************************************************************)
\* the entries json.load finds in the file: none unless it holds an object
StoredEntries(file) == IF file.kind = "dict" THEN file.data ELSE <<>>

IsSaveStep == store_calls' = store_calls + 1 /\ store_op' \in {"saved", "raised"}

C13_Step ==
    IsSaveStep =>
        \A v \in StoreUsers \ {store_user'} :
            v \in DOMAIN StoredEntries(STATE_FILE) =>
                /\ v \in DOMAIN StoredEntries(STATE_FILE')
                /\ StoredEntries(STATE_FILE')[v] = StoredEntries(STATE_FILE)[v]

\* C13: save_user_state(u, s) changes only user u's entry of the state
\* file: every other user's entry stored before the call is stored,
\* unchanged, after it.
C13_OtherUsersKept == [][C13_Step]_vars

\* Jordy's state was saved into a file that already held an entry of Alice
C13_Witness ==
    /\ store_op = "saved"
    /\ store_user = "Jordy"
    /\ STATE_FILE.kind = "dict"
    /\ DOMAIN STATE_FILE.data = {"Jordy", "Alice"}
    /\ STATE_FILE.data["Alice"].favorites # <<>>
    /\ STATE_FILE.data["Jordy"].hidden # <<>>


(***************************************************************************)
(* C14                                                                     *)
(***************************************************************************)
\* C14: for the same sequence of log_notification calls the read accessors
\* answer the same on both backends: the same total_sent and total_jobs,
\* and the same history entries for every email filter and limit.
C14_BackendsAgree ==
    \A e \in BackendFilters :
        /\ DbStats(backend_db, e).total_sent = JsonStats(backend_json, e).total_sent
        /\ DbStats(backend_db, e).total_jobs = JsonStats(backend_json, e).total_jobs
        /\ \A limit \in HistoryLimits :
               DbHistory(backend_db, e, limit) = JsonHistory(backend_json, e, limit)


(***************************************************************************)
(* C15                                                                     *)
(***************************************************************************)
\* the required skill is among the candidate skills, exactly or with a
\* similarity ratio of at least 0.7
SkillFound(req_skill, cv_skills) ==
    \E j \in 1..Len(cv_skills) :
        \/ cv_skills[j] = req_skill
        \/ 10 * SequenceMatcherRatio(req_skill, cv_skills[j]).num >= 7 * SequenceMatcherRatio(req_skill, cv_skills[j]).den

FoundCount == Cardinality({i \in 1..Len(skill_required) : SkillFound(skill_required[i], skill_cv)})

\* C15: for a required list of length N >= 1 and a non-empty candidate list
\* the score is k/N, within [0, 1], k being the number of required skills
\* found exactly or with similarity >= 0.7, and the matched list has k
\* entries; the score is 0.0 when either list is empty.
C15_ScoreIsFoundOverRequired ==
    IF skill_required = <<>> \/ skill_cv = <<>>
    THEN skill_result.score.num = 0
    ELSE /\ skill_result.score.num * Len(skill_required) = FoundCount * skill_result.score.den
         /\ 0 <= skill_result.score.num
         /\ skill_result.score.num <= skill_result.score.den
         /\ Len(skill_result.matched) = FoundCount

\* three required skills: one found exactly, one found by similarity (0.75)
\* and one not found, its best similarity being below 0.7
C15_Witness ==
    /\ skill_required = <<"python", "sql", "data analysis">>
    /\ skill_cv = <<"python", "mysql">>
    /\ skill_result.matched = <<"python", "sql (similar: mysql)">>
    /\ skill_result.score = [num |-> 2, den |-> 3]


(***************************************************************************)
(* C16                                                                     *)
(***************************************************************************)
InUnitInterval(x) == x.den > 0 /\ 0 <= x.num /\ x.num <= x.den

\* 0.60*s + 0.20*e + 0.15*d + 0.05*l in ten-thousandths, rounded
RoundedWeightedSum(s, e, d, l) ==
    RoundHalfEven(6000 * s.num * e.den * d.den * l.den + 2000 * e.num * s.den * d.den * l.den + 1500 * d.num * s.den * e.den * l.den + 500 * l.num * s.den * e.den * d.den, s.den * e.den * d.den * l.den)

\* C16: for any CV/offer pair the ATS score is 0.60*skills + 0.20*experience
\* + 0.15*education + 0.05*location rounded to 4 decimals, every component
\* is within [0, 1], and so 0.0 <= ats_score <= 1.0.
C16_AtsScoreWeightedAndBounded ==
    \A i \in 1..Len(ats_cvs) :
        LET s == SkillsScore(ats_cvs[i], ats_offer)
            e == ExpScore(ats_cvs[i], ats_offer)
            d == EduScore(ats_cvs[i], ats_offer)
            l == LocScore(ats_cvs[i], ats_offer)
        IN /\ InUnitInterval(s) /\ InUnitInterval(e) /\ InUnitInterval(d) /\ InUnitInterval(l)
           /\ ScoreOffer(ats_cvs[i], ats_offer) = RoundedWeightedSum(s, e, d, l)
           /\ 0 <= ScoreOffer(ats_cvs[i], ats_offer)
           /\ ScoreOffer(ats_cvs[i], ats_offer) <= 10000

\* a CV with more years than required and a lower degree than required was
\* scored: 0.6 * 1/3 + 0.2 * 1 + 0.15 * 0 + 0.05 * 0.6 = 0.43
C16_Witness ==
    /\ Len(ats_cvs) = 1
    /\ ats_cvs[1].years_experience > ats_offer.required_years
    /\ ats_offer.required_years > 0
    /\ SkillsScore(ats_cvs[1], ats_offer) = [num |-> 1, den |-> 3]
    /\ EduScore(ats_cvs[1], ats_offer) = [num |-> 0, den |-> 4]
    /\ LocScore(ats_cvs[1], ats_offer) = [num |-> 3, den |-> 5]
    /\ ats_result.ats_score = 4300

(***************************************************************************)
(* C17                                                                     *)
(***************************************************************************)
AtsScores == [i \in 1..Len(ats_cvs) |-> ScoreOffer(ats_cvs[i], ats_offer)]

\* C17: with one or more CV records the offer's ats_score is the maximum of
\* the per-CV scores and best_match_cv is the name of the first CV, in input
\* order, that attains it.
C17_BestCvIsFirstMaximum ==
    ats_cvs # <<>> =>
        /\ \A i \in 1..Len(ats_cvs) : AtsScores[i] <= ats_result.ats_score
        /\ \E i \in 1..Len(ats_cvs) :
               /\ AtsScores[i] = ats_result.ats_score
               /\ \A j \in 1..(i - 1) : AtsScores[j] < ats_result.ats_score
               /\ ats_result.best_match_cv = ats_cvs[i].name

\* two different CVs tie and the first is kept
C17_Witness ==
    /\ Len(ats_cvs) = 2
    /\ AtsScores[1] = AtsScores[2]
    /\ ats_cvs[2] # [ats_cvs[1] EXCEPT !.name = "cv2"]
    /\ ats_result.best_match_cv = "cv1"
    /\ ats_result.ats_score = AtsScores[1]


(***************************************************************************)
(* C18                                                                     *)
(***************************************************************************)
PageIsKnown == page \in {"landing", "dashboard"}

\* page changes only by the landing call-to-action (to dashboard) and by the
\* return action (to landing)
PageChangesOnlyByItsButtons ==
    page' # page =>
        \/ page = "landing" /\ page' = "dashboard" /\ page_event' = "sphere"
        \/ page = "dashboard" /\ page' = "landing" /\ page_event' = "return"

\* C18: page is always landing or dashboard; it is landing at session start,
\* becomes dashboard only by the landing call-to-action and landing again
\* only by the return action; no other interaction changes it.
C18_PageStateMachine ==
    /\ page = "landing"
    /\ []PageIsKnown
    /\ [][PageChangesOnlyByItsButtons]_vars

\* the session went to the dashboard, used it and came back to the landing
\* page
C18_Witness ==
    /\ page = "landing"
    /\ page_event = "return"
    /\ page_selection = "Mes Offres"
    /\ page_user = "Alice"
    /\ page_events >= 4


(***************************************************************************)
(* C19                                                                     *)
(***************************************************************************)
\* this step is a send_notifications call that reached its loop
IsSendStep ==
    /\ Len(notif_calls') = Len(notif_calls) + 1
    /\ notif_calls'[Len(notif_calls')].kind = "send"
    /\ notif_calls'[Len(notif_calls')].ran

LastSend == notif_calls'[Len(notif_calls')]

\* the keys of the attempts of the call whose dispatch succeeded, in order
DispatchedKeys(attempts) ==
    LET ok == SelectSeq(attempts, LAMBDA a : a.ok)
    IN [j \in 1..Len(ok) |-> ok[j].key]

\* offer j of the matched list is to be attempted: the call is forced, or its
\* key is neither in the sent list the call started with nor dispatched by an
\* earlier attempt of the call
ToBeAttempted(j, call, sent_before) ==
    \/ call.force
    \/ /\ call.matched[j] \notin Range(sent_before)
       /\ ~\E a \in 1..Len(call.attempts) :
              /\ call.attempts[a].ok
              /\ call.attempts[a].idx < j
              /\ call.attempts[a].key = call.matched[j]

C19_Step ==
    IsSendStep =>
        LET call == LastSend
            attempts == call.attempts
            ok == DispatchedKeys(attempts)
        IN \* a failed dispatch adds no key: the sent list grows by the keys
           \* of the successful dispatches only
           /\ sent_notifications' = sent_notifications \o ok
           \* the returned count is the number of successful dispatches, and
           \* each of them is one mail of this call
           /\ call.returned = Len(ok)
           /\ Len(outbox') = Len(outbox) + Len(ok)
           \* the attempts follow the order of the matched list
           /\ \A a \in 1..Len(attempts) :
                  /\ attempts[a].key = call.matched[attempts[a].idx]
                  /\ a > 1 => attempts[a - 1].idx < attempts[a].idx
           \* a failure does not stop the loop: every matched offer that is
           \* not skipped as already sent is attempted
           /\ \A j \in 1..Len(call.matched) :
                  ToBeAttempted(j, call, sent_notifications)
                      <=> \E a \in 1..Len(attempts) : attempts[a].idx = j

\* C19: in send_notifications, when the dispatch of one matched offer fails
\* (the mail client raises), its key is not added to the sent list and the
\* counter is not incremented, the remaining matched offers are still
\* attempted in order, and the returned count is the number of offers whose
\* dispatch succeeded in this call.
C19_FailedDispatchIsSkipped == [][C19_Step]_vars

\* a call whose first dispatch failed and whose second one succeeded: it
\* returned 1 and the sent list holds the second key only
C19_Witness ==
    /\ notif_calls # <<>>
    /\ LET call == notif_calls[Len(notif_calls)]
       IN /\ call.kind = "send" /\ call.ran
          /\ Len(call.attempts) = 2
          /\ ~call.attempts[1].ok
          /\ call.attempts[2].ok
          /\ call.attempts[1].key # call.attempts[2].key
          /\ call.returned = 1
          /\ sent_notifications = <<call.attempts[2].key>>


(***************************************************************************)
(* C20                                                                     *)
(***************************************************************************)
\* the threshold a recipient is entitled to: the score of their own stored
\* preference when they have one that carries a number, the default of the
\* agent otherwise
OwnThreshold(recipient_email, recipient_name) ==
    AppliedThreshold(DefaultMinMatchScore, user_prefs, recipient_email, recipient_name)

\* C20: in one run of the one-shot notify script or of the scheduler, the
\* threshold applied to a recipient is that recipient's own stored
\* min_match_score/100 when a preference exists for them and the default
\* 0.70 otherwise, whichever recipients were processed earlier in the run.
C20_ThresholdIsPerRecipient ==
    \A r \in 1..Len(run_log) :
        run_log[r].threshold = OwnThreshold(run_log[r].email, run_log[r].name)


(***************************************************************************)
(* C21                                                                     *)
(***************************************************************************)
\* the last run reached its fetch-and-persist step with the relational
\* store available, and no failure of the store was injected in that step
PersistStepDone ==
    /\ sched_last.outcome \in {"nothing_new", "completed"}
    /\ sched_last.db
    /\ sched_last.fault # "db_persist"

\* C21: with the relational store available, after the fetch-and-persist
\* step every fetched offer with a non-empty url has a row in the JobOffer
\* table and the rows that existed before the step are still there (the
\* table holds one row per url), also when the fetched batch contains one
\* url more than once.
C21_EveryFetchedUrlHasARow ==
    PersistStepDone =>
        /\ \A i \in 1..Len(sched_last.filtered) :
               sched_last.filtered[i].url # "" =>
                   sched_last.filtered[i].url \in job_offer_table
        /\ sched_last.known \subseteq job_offer_table


(***************************************************************************)
(* C22                                                                     *)
(***************************************************************************)
\* an upload that got as far as the stores, with the relational store
\* available: its CV is in a row of the relational store and cv_data.json is
\* untouched, or the transaction left no trace and cv_data.json has the CV
UploaderPersists ==
    (uploads' = uploads + 1 /\ uploader_db' = "yes" /\ upload_result'[1] = "True") =>
        LET path == upload_log'[Len(upload_log')].path
        IN \/ /\ \E i \in 1..Len(cvs_table') : cvs_table'[i].file_path = path
              /\ cv_data_json' = cv_data_json
           \/ /\ users_table' = users_table /\ cvs_table' = cvs_table
              /\ \E i \in 1..Len(cv_data_json') : cv_data_json'[i].path = path

\* a log_notification call: rows are added to the relational store and the
\* history file is untouched, or no row is added and the record is the last
\* one of the history file
LoggerPersists ==
    (notification_rows' # notification_rows \/ log_appended' # log_appended) =>
        \/ /\ notification_rows' > notification_rows
           /\ history_file' = history_file /\ log_appended' = log_appended
        \/ /\ notification_rows' = notification_rows
           /\ Len(log_appended') = Len(log_appended) + 1
           /\ history_file' # <<>>
           /\ history_file'[Len(history_file')] = log_appended'[Len(log_appended')]

IsProfileDbStep == profile_calls' = profile_calls + 1 /\ profile_db' = "yes"

\* the preference of the call is in the relational store
ProfileInDb ==
    /\ \E u \in 1..Len(profile_users'), p \in 1..Len(preferences_table') :
           /\ preferences_table'[p].user_id = profile_users'[u].id
           /\ preferences_table'[p].min_match_score = profile_last'.match_score
           /\ \/ profile_users'[u].name = profile_last'.user_name
              \/ (profile_last'.email # "" /\ profile_users'[u].email = profile_last'.email)
    /\ profile_result' = ProfileSaved
    /\ user_preferences_json' = user_preferences_json

\* the transaction left no trace and user_preferences.json has the preference
ProfileInJson ==
    /\ profile_users' = profile_users /\ preferences_table' = preferences_table
    /\ \E i \in 1..Len(user_preferences_json') :
           /\ user_preferences_json'[i].name = profile_last'.user_name
           /\ user_preferences_json'[i].min_match_score = profile_last'.match_score

\* the transaction left no trace, user_preferences.json is untouched and the
\* call reports the failure
ProfileRefused ==
    /\ profile_users' = profile_users /\ preferences_table' = preferences_table
    /\ user_preferences_json' = user_preferences_json
    /\ profile_result' = ProfileDbError

C22_FallbackStep ==
    /\ UploaderPersists
    /\ LoggerPersists
    /\ IsProfileDbStep => (ProfileInDb \/ ProfileInJson)

\* C22 as stated: in each of the three writers a failed relational write is
\* rolled back and the same data is then written to the JSON file, so the
\* data is persisted in one of the two representations.
C22_EveryWriterFallsBack == [][C22_FallbackStep]_vars

C22_AmendedStep ==
    /\ UploaderPersists
    /\ LoggerPersists
    /\ IsProfileDbStep => (ProfileInDb \/ ProfileRefused)

\* C22 amended: the CV uploader and the notification logger roll back and
\* then write the same data to their JSON file; the profile saver rolls
\* back and returns (False, "Erreur lors de la sauvegarde (DB) ...") without
\* writing user_preferences.json.
C22_UploaderAndLoggerFallBack == [][C22_AmendedStep]_vars

\* a profile save failed on the relational store after an earlier one had
\* been committed
C22_Witness ==
    /\ profile_db = "yes"
    /\ profile_result = ProfileDbError
    /\ preferences_table # <<>>
    /\ user_preferences_json = <<>>


(***************************************************************************)
(* C23                                                                     *)
(***************************************************************************)
\* a call of analyze_cvs processed every record but, at most, one: there is
\* a record number j (0 for none) such that every other record carries the
\* result of its analysis
C23_Step ==
    IsAnalyzeStep =>
        \E j \in 0..Len(cv_data) :
            \A i \in 1..Len(cv_data) :
                i # j => cv_data'[i] = AnalyzeOne(cv_data[i])

\* C23: in analyze_cvs (and compare_job_offers) a failure raised while
\* processing one record is skipped and the loop continues: every other
\* record of the input list is still processed and its result stored.
C23_OtherRecordsProcessed == [][C23_Step]_vars


(***************************************************************************)
(* C24                                                                     *)
(***************************************************************************)
\* 1.0 if rank(E) >= rank(R), rank(E) / max(1, rank(R)) otherwise
ExpectedEduScore(e, r) ==
    IF EduOrder[e] >= EduOrder[r] THEN One
    ELSE [num |-> EduOrder[e], den |-> Max(1, EduOrder[r])]

SameFraction(a, b) == a.num * b.den = b.num * a.den

\* C24: for a CV record whose analysis was produced by the CV analysis agent
\* with education level E, scored against an offer that requires R, the
\* education component of the ATS score is 1.0 when rank(E) >= rank(R) and
\* rank(E) / max(1, rank(R)) otherwise.
C24_EducationComponent ==
    edu_total # -10000 =>
        SameFraction(edu_score,
                     ExpectedEduScore(edu_analysis.education, edu_offer.required_education))


(***************************************************************************)
(* C25                                                                     *)
(***************************************************************************)
\* the update of process p is in the file it was written to
UpdatePresent(p) ==
    LET call == conc_call[p]
    IN IF call.op = "state"
       THEN /\ shared_files.state.kind = "dict"
            /\ call.user \in DOMAIN shared_files.state.data
            /\ shared_files.state.data[call.user] = NormalizedState(call.state)
       ELSE \E i \in 1..Len(shared_files.log) : shared_files.log[i] = ConcRecord(call)

\* q read the file before p wrote it and wrote its copy after p
Overwrote(q, p) ==
    /\ conc_call[q].op = conc_call[p].op
    /\ conc_read_at[q] < conc_write_at[p]
    /\ conc_write_at[p] < conc_write_at[q]

BothDone == \A p \in ConcProcs : conc_pc[p] = "done"

\* C25: the shared JSON files are read, changed and written without a lock;
\* when two calls on one file have finished, the update of one of them is
\* absent exactly when the other call read the file before that update was
\* written and wrote its copy afterwards, and such an interleaving exists.
C25_LostUpdateWhenOverlapping ==
    BothDone =>
        \A p, q \in ConcProcs :
            p # q => (UpdatePresent(p) <=> ~Overwrote(q, p))

\* two save_user_state calls for different users have finished and the
\* entry of one of the users is not in the file
C25_Witness ==
    /\ BothDone
    /\ conc_call[1].op = "state" /\ conc_call[2].op = "state"
    /\ \E p \in ConcProcs : ~UpdatePresent(p)

\* the same for two JSON log_notification appends
C25_WitnessLog ==
    /\ BothDone
    /\ conc_call[1].op = "log" /\ conc_call[2].op = "log"
    /\ \E p \in ConcProcs : ~UpdatePresent(p)


(***************************************************************************)
(* C26                                                                     *)
(***************************************************************************)
\* an HTTPError whose status is none of 429, 500, 502, 503, 504
NonRetryableStatus(o) == o.kind = "http" /\ o.status \notin {429, 500, 502, 503, 504}

\* an attempt that failed with a status outside 429/500/502/503/504 is the
\* last event of its call: the call has raised, and nothing was slept or
\* attempted after it
HardFailureEndsCall ==
    \A i \in 1..Len(chat_outcomes) :
        NonRetryableStatus(chat_outcomes[i]) =>
            /\ i = Len(chat_outcomes)
            /\ chat_pc = "raised"
            /\ chat_result = "OpenAI API error"
            /\ Len(chat_sleeps) = i - 1
            /\ chat_trace[Len(chat_trace)] = "post"

\* a call made without GPT_3_API_KEY
IsKeylessCall ==
    /\ chat_calls' = chat_calls + 1
    /\ chat_result' = "GPT_3_API_KEY not set"

C26_Step ==
    /\ IsKeylessCall =>
           /\ chat_pc' = "raised"
           /\ openai_timestamps' = openai_timestamps
           /\ chat_trace' = <<>>
           /\ chat_outcomes' = <<>>
    /\ (chat_pc = "raised" /\ chat_calls' = chat_calls) => UNCHANGED chatVars

\* C26: an attempt that fails with a status that is not 429/500/502/503/504
\* makes the call raise at once, with no sleep and no further attempt; a call
\* without GPT_3_API_KEY raises before any limiter acquisition or request.
C26_HardFailureWithoutRetry ==
    /\ []HardFailureEndsCall
    /\ [][C26_Step]_vars

\* a call raised on a 400 or 401 that followed a retried failure, and a
\* call without key has raised
C26_Witness ==
    /\ chat_pc = "raised"
    /\ Len(chat_outcomes) = 2
    /\ NonRetryableStatus(chat_outcomes[2])
    /\ chat_sleeps = <<1>>

(***************************************************************************)
(* C27                                                                     *)
(***************************************************************************)
\* timestamps the current call has added to the limiter
AddedTimestamps == Len(openai_timestamps) - chat_base

\* every "post" of the trace directly follows an "acquire" of its own
EachPostAcquired ==
    /\ \A i \in 1..Len(chat_trace) :
           chat_trace[i] = "post" => (i > 1 /\ chat_trace[i - 1] = "acquire")
    /\ \A i \in 1..Len(chat_trace) :
           chat_trace[i] = "acquire" => (i < Len(chat_trace) /\ chat_trace[i + 1] = "post")

LogEntryOf(log, letters, key) ==
    CHOOSE e \in Range(log) : e.key = key /\ e.letter = letters[key]

\* the letter under key was written by the step
WrittenByStep(key) == generated_letters'[key].written > letter_serial

C28_Step ==
    (letter_op' = "generate" /\ ~letter_call'.raised) =>
        \A i \in 1..Len(analyzed_offers) :
            analyzed_offers[i].match_score >= letter_call'.threshold =>
                LET key == OfferKey(analyzed_offers[i])
                IN /\ key \in DOMAIN generated_letters'
                   /\ WrittenByStep(key) =>
                          LET e == LogEntryOf(letter_log', generated_letters', key)
                          IN (~openai_available \/ e.gpt_failed) <=> e.letter.by = "template"

Flipped(a, b) == (a \ b) \cup (b \ a)

\* the sets of the persisted state that a step changed for user u
ChangedSets(u) ==
    {f \in {"favorites", "viewed", "hidden"} : user_state_file'[u][f] # user_state_file[u][f]}

C29_Step ==
    \A u \in UIUsers :
        LET old == user_state_file[u]
            new == user_state_file'[u]
        IN /\ old.viewed \subseteq new.viewed
           /\ old.hidden \subseteq new.hidden
           /\ Cardinality(ChangedSets(u)) <= 1
           /\ \A f \in ChangedSets(u) :
                  /\ u = current_user
                  /\ \E oid \in RenderedIds : Flipped(old[f], new[f]) = {oid}

\* C29: over any sequence of toggle actions of the Offers tab the persisted
\* viewed and hidden sets only grow, a favorite click flips the membership
\* of the acted-on offer only, and every action leaves the two sets it does
\* not act on unchanged.
C29_TogglesAreLocal == [][C29_Step]_vars

\* the active user has marked an offer as viewed and then hidden one: two
\* sets have grown and the favorites are as they were
C29_Witness ==
    /\ ui_clicks = 2
    /\ user_state_file[current_user].viewed # {}
    /\ user_state_file[current_user].hidden # {}
    /\ user_state_file[current_user].favorites = {}


(***************************************************************************)
(* C30                                                                     *)
(***************************************************************************)
\* C30: during the DB import the owning user of every entry is resolved by
\* email, then by name, and created only when neither matches: the import
\* never aborts, and no two users it leaves share a name or an email.
C30_OneUserPerPerson ==
    import_result # "idle" =>
        /\ import_result = "completed"
        /\ \A i, j \in 1..Len(import_users) :
               (import_users[i].name = import_users[j].name
                \/ import_users[i].email = import_users[j].email) => i = j

====
